---- MODULE Spec2Model ----
(***************************************************************************)
(* A model of the kaykay graph store (FlowState, src/lib/stores/           *)
(* flow.svelte.ts): nodes, edges, the handle registry, the selection, the  *)
(* clipboard, the undo/redo stacks and the operations on them.             *)
(*                                                                         *)
(* Conventions of the translation                                          *)
(*  - arrays are sequences; a JS Set is a duplicate-free sequence in       *)
(*    insertion order (Array.from(set) and for..of iterate in that order); *)
(*  - an absent string-valued field is the string Undefined, an absent     *)
(*    field of another type is None == <<>> and a present one Some(v);     *)
(*  - coordinates are integers (the inputs are multiples of 20, so the     *)
(*    halving in paste() stays exact within the explored runs);            *)
(*  - a recursion that does not terminate on a cyclic parent relation      *)
(*    ends in a RangeError (stack overflow): the recursive operators carry *)
(*    a depth budget larger than any acyclic chain and report ok = FALSE   *)
(*    when it is used up; the calling handler then stops where it is,      *)
(*    keeping the assignments it already made.                             *)
(***************************************************************************)
EXTENDS Integers, Sequences, FiniteSets, TLC

\* ------------------------------------------------------------------ bounds
MaxSteps == 3        \* calls per run of the general specifications
MaxDeep == 5         \* calls per run of the history specification
MaxCbSteps == 4      \* calls per run of the re-entrant-callback specification
MaxIdNum == 40
MaxConnSteps == 3
MaxClipSteps == 3       \* largest numeric node id that parseInt is tabulated for

\* -------------------------------------------------------- program constants
DefaultMaxHistory == 50
DefaultPasteX == 100
DefaultPasteY == 100

\* ------------------------------------------------------------ JS encodings
Undefined == "undefined"
None == <<>>
Some(v) == <<v>>
OrElse(o, d) == IF o = None THEN d ELSE o[1]
Truthy(s) == s # Undefined /\ s # ""
NaN == -1000000

\* Zoom factors are fixed-point numbers: ZoomUnit stands for the factor 1, and
\* products and quotients are rounded down to that resolution.
ZoomUnit == 1000

Pos(x, y) == [x |-> x, y |-> y]
Range(s) == {s[i] : i \in 1..Len(s)}
MapSeq(s, F(_)) == [i \in 1..Len(s) |-> F(s[i])]
MinOf(S) == CHOOSE m \in S : \A k \in S : m <= k
MaxOf(S) == CHOOSE m \in S : \A k \in S : m >= k
SetAdd(s, e) == IF e \in Range(s) THEN s ELSE Append(s, e)
SetDelete(s, e) == SelectSeq(s, LAMBDA v : v # e)

\* Array.prototype.slice(start) with one argument (0-based start, negative
\* counts from the end, and -0 is 0)
slice(s, start) ==
    LET from == IF start < 0
                THEN (IF Len(s) + start < 0 THEN 0 ELSE Len(s) + start)
                ELSE (IF start > Len(s) THEN Len(s) ELSE start)
    IN  SubSeq(s, from + 1, Len(s))

String(n) == ToString(n)
parseInt(id) ==
    IF \E k \in 0..MaxIdNum : String(k) = id
    THEN CHOOSE k \in 0..MaxIdNum : String(k) = id
    ELSE NaN

\* ------------------------------------------------------------------- state
VARIABLES
    nodes,              \* NodeState[]
    edges,              \* FlowEdge[]
    handle_registry,    \* "node_id:handle_id" -> HandleState
    selected_node_ids,
    selected_edge_ids,
    clipboard,          \* None, or Some([nodes, edges])
    next_node_id,
    history_stack,
    redo_stack,
    is_restoring,
    config,             \* [locked, allow_delete, max_history, default_edge_type]
    viewport,           \* [x, y, zoom], zoom in units of 1/ZoomUnit
    draft_connection,   \* None, or Some([source_node_id, source_handle_id,
                        \*               source_position, target_position])
    selection_rect,     \* None, or Some([start, end])
    canvas_width,
    canvas_height,
    dragging,           \* None, or Some of the drag state of the Node component
                        \* that is being dragged: [node_id, hasMoved, dragOffset,
                        \* dragStartPos, otherSelectedOffsets]
    registered,         \* the <<node_id, handle>> registrations in force, as called
    frames,             \* undo()/redo() calls that are inside their callback
    calls,              \* the last calls made by the host, newest last
    budget              \* calls left in the explored run

store == <<nodes, edges, handle_registry, selected_node_ids, selected_edge_ids,
           clipboard, next_node_id, history_stack, redo_stack, is_restoring, config>>
\* the canvas state: what the pointer and wheel handlers write
view == <<viewport, draft_connection, selection_rect, canvas_width, canvas_height>>
vars == <<nodes, edges, handle_registry, selected_node_ids, selected_edge_ids,
          clipboard, next_node_id, history_stack, redo_stack, is_restoring, config,
          viewport, draft_connection, selection_rect, canvas_width, canvas_height,
          dragging, registered, frames, calls, budget>>

\* ------------------------------------------------------------ constructors
FlowNode(id, type, x, y, width, height, parent_id) ==
    [id |-> id, type |-> type, position |-> Pos(x, y), data |-> <<>>,
     width |-> width, height |-> height, selected |-> None,
     parent_id |-> parent_id, z_index |-> None]

\* {...node, handles: new Map(), computed_width: node.width ?? 0, ...}
NodeStateOf(n) ==
    [id |-> n.id, type |-> n.type, position |-> n.position, data |-> n.data,
     width |-> n.width, height |-> n.height, selected |-> n.selected,
     parent_id |-> n.parent_id, z_index |-> n.z_index,
     computed_width |-> OrElse(n.width, 0),
     computed_height |-> OrElse(n.height, 0)]

FlowEdge(id, source, source_handle, target, target_handle, waypoints) ==
    [id |-> id, source |-> source, source_handle |-> source_handle,
     target |-> target, target_handle |-> target_handle, type |-> Undefined,
     label |-> Undefined, selected |-> None, waypoints |-> waypoints,
     style |-> Undefined, animated |-> None, color |-> Undefined]

HandleState(id, type, port, accept) ==
    [id |-> id, type |-> type, port |-> port, accept |-> accept]

HandleKey(node_id, handle_id) == node_id \o ":" \o handle_id

\* ------------------------------------------------------------ serialization
toJSONNode(n) ==
    [id |-> n.id, type |-> n.type, position |-> n.position, data |-> n.data,
     width |-> n.width, height |-> n.height, parent_id |-> n.parent_id,
     z_index |-> n.z_index]

\* toJSON() of an edge that writes an empty waypoint list as no waypoints
toJSONEdge_emptyWaypointsDropped(e) ==
    [id |-> e.id, source |-> e.source, source_handle |-> e.source_handle,
     target |-> e.target, target_handle |-> e.target_handle, type |-> e.type,
     label |-> e.label,
     waypoints |-> IF e.waypoints = Some(<<>>) THEN None ELSE e.waypoints,
     style |-> e.style, animated |-> e.animated, color |-> e.color]

toJSONEdge(e) ==
    [id |-> e.id, source |-> e.source, source_handle |-> e.source_handle,
     target |-> e.target, target_handle |-> e.target_handle, type |-> e.type,
     label |-> e.label, waypoints |-> e.waypoints, style |-> e.style,
     animated |-> e.animated, color |-> e.color]

toJSONOf(ns, es) == [nodes |-> MapSeq(ns, toJSONNode), edges |-> MapSeq(es, toJSONEdge)]
toJSON == toJSONOf(nodes, edges)

\* The nodes and edges that fromJSON / restoreFromSnapshot build from a Flow:
\* a field the Flow does not carry is absent in the result.
NodeFromJSON(j) ==
    [id |-> j.id, type |-> j.type, position |-> j.position, data |-> j.data,
     width |-> j.width, height |-> j.height, selected |-> None,
     parent_id |-> j.parent_id, z_index |-> j.z_index,
     computed_width |-> OrElse(j.width, 0),
     computed_height |-> OrElse(j.height, 0)]

EdgeFromJSON(j) ==
    [id |-> j.id, source |-> j.source, source_handle |-> j.source_handle,
     target |-> j.target, target_handle |-> j.target_handle, type |-> j.type,
     label |-> j.label, selected |-> None, waypoints |-> j.waypoints,
     style |-> j.style, animated |-> j.animated, color |-> j.color]

\* --------------------------------------------------------------- hierarchy
\* Array.prototype.find by id: the index of the first match, 0 for undefined
FindNode(ns, node_id) ==
    LET I == {i \in 1..Len(ns) : ns[i].id = node_id}
    IN  IF I = {} THEN 0 ELSE MinOf(I)

\* the call depth no acyclic parent chain of ns reaches
Depth(ns) == Len(ns) + 2

getChildNodes(ns, parent_id) == SelectSeq(ns, LAMBDA n : n.parent_id = parent_id)

RECURSIVE getAbsoluteRec(_, _, _)
getAbsoluteRec(ns, node_id, fuel) ==
    IF fuel = 0 THEN [ok |-> FALSE, x |-> 0, y |-> 0]
    ELSE LET i == FindNode(ns, node_id) IN
         IF i = 0 THEN [ok |-> TRUE, x |-> 0, y |-> 0]
         ELSE IF ~Truthy(ns[i].parent_id)
              THEN [ok |-> TRUE, x |-> ns[i].position.x, y |-> ns[i].position.y]
              ELSE LET parent_pos == getAbsoluteRec(ns, ns[i].parent_id, fuel - 1)
                   IN  IF ~parent_pos.ok THEN parent_pos
                       ELSE [ok |-> TRUE,
                             x |-> parent_pos.x + ns[i].position.x,
                             y |-> parent_pos.y + ns[i].position.y]

\* getAbsolutePosition that adds the stored position of the parent only
getAbsolutePosition_oneLevel(ns, node_id) ==
    LET i == FindNode(ns, node_id)
        pi == IF i = 0 THEN 0 ELSE FindNode(ns, ns[i].parent_id)
    IN  IF i = 0 THEN [ok |-> TRUE, x |-> 0, y |-> 0]
        ELSE IF ~Truthy(ns[i].parent_id) \/ pi = 0
             THEN [ok |-> TRUE, x |-> ns[i].position.x, y |-> ns[i].position.y]
             ELSE [ok |-> TRUE, x |-> ns[pi].position.x + ns[i].position.x,
                   y |-> ns[pi].position.y + ns[i].position.y]

\* [ok, x, y]; ok = FALSE is the RangeError of a recursion without end
getAbsolutePosition(ns, node_id) == getAbsoluteRec(ns, node_id, Depth(ns))

RECURSIVE isDescendantRec(_, _, _, _)
isDescendantRec(ns, node_id, potential_ancestor_id, fuel) ==
    IF fuel = 0 THEN "RangeError"
    ELSE LET i == FindNode(ns, node_id) IN
         IF i = 0 \/ ~Truthy(ns[i].parent_id) THEN "false"
         ELSE IF ns[i].parent_id = potential_ancestor_id THEN "true"
         ELSE isDescendantRec(ns, ns[i].parent_id, potential_ancestor_id, fuel - 1)

\* "true", "false" or "RangeError"
isDescendantOf(ns, node_id, potential_ancestor_id) ==
    isDescendantRec(ns, node_id, potential_ancestor_id, Depth(ns))

\* [nodes, ok]: the nodes after the call, ok = FALSE when it threw
setNodeParentInternal(ns, node_id, parent_id) ==
    LET i == FindNode(ns, node_id)
        desc == IF Truthy(parent_id) THEN isDescendantOf(ns, parent_id, node_id) ELSE "false"
        old_absolute == getAbsolutePosition(ns, node_id)
        parent_absolute == getAbsolutePosition(ns, parent_id)
    IN  IF i = 0 THEN [nodes |-> ns, ok |-> TRUE]
        ELSE IF desc = "RangeError" THEN [nodes |-> ns, ok |-> FALSE]
        ELSE IF desc = "true" THEN [nodes |-> ns, ok |-> TRUE]
        ELSE IF ~old_absolute.ok THEN [nodes |-> ns, ok |-> FALSE]
        ELSE IF Truthy(parent_id)
             THEN IF ~parent_absolute.ok THEN [nodes |-> ns, ok |-> FALSE]
                  ELSE [nodes |-> [ns EXCEPT ![i].position =
                                        Pos(old_absolute.x - parent_absolute.x,
                                            old_absolute.y - parent_absolute.y),
                                      ![i].parent_id = parent_id],
                        ok |-> TRUE]
             ELSE IF Truthy(ns[i].parent_id)
                  THEN [nodes |-> [ns EXCEPT ![i].position = Pos(old_absolute.x, old_absolute.y),
                                             ![i].parent_id = parent_id],
                        ok |-> TRUE]
                  ELSE [nodes |-> [ns EXCEPT ![i].parent_id = parent_id], ok |-> TRUE]

\* removeNodeInternal on st = [nodes, edges, selected_node_ids, ok]: the children
\* found on entry are removed first, one after the other; a RangeError in one of
\* them ends the call with what was removed until then.
RECURSIVE removeNodeRec(_, _, _)
RECURSIVE removeChildren(_, _, _)
removeChildren(st, children, fuel) ==
    IF children = <<>> THEN st
    ELSE LET st1 == removeNodeRec(st, Head(children).id, fuel)
         IN  IF ~st1.ok THEN st1 ELSE removeChildren(st1, Tail(children), fuel)

removeNodeRec(st, node_id, fuel) ==
    IF fuel = 0 THEN [st EXCEPT !.ok = FALSE]
    ELSE LET st1 == removeChildren(st, getChildNodes(st.nodes, node_id), fuel - 1)
         IN  IF ~st1.ok THEN st1
             ELSE [nodes |-> SelectSeq(st1.nodes, LAMBDA n : n.id # node_id),
                   edges |-> SelectSeq(st1.edges,
                                LAMBDA e : e.source # node_id /\ e.target # node_id),
                   selected_node_ids |-> SetDelete(st1.selected_node_ids, node_id),
                   ok |-> TRUE]

\* removeNodeInternal that leaves the children of the node in place
removeNodeInternal_shallow(st, node_id) ==
    [nodes |-> SelectSeq(st.nodes, LAMBDA n : n.id # node_id),
     edges |-> SelectSeq(st.edges, LAMBDA e : e.source # node_id /\ e.target # node_id),
     selected_node_ids |-> SetDelete(st.selected_node_ids, node_id),
     ok |-> TRUE]

removeNodeInternal(st, node_id) == removeNodeRec(st, node_id, Depth(st.nodes))

\* ----------------------------------------------------------------- history
maxHistoryOf(cfg) == OrElse(cfg.max_history, DefaultMaxHistory)

\* pushSnapshot with the snapshot put at the front of the stack (unshift for push)
pushSnapshot_unshift(hs, rs, restoring, snapshot, cfg) ==
    IF restoring THEN [history_stack |-> hs, redo_stack |-> rs]
    ELSE [history_stack |-> <<snapshot>> \o slice(hs, 0 - (maxHistoryOf(cfg) - 1)),
          redo_stack |-> <<>>]

\* pushSnapshot without the is_restoring guard
pushSnapshot_unguarded(hs, rs, restoring, snapshot, cfg) ==
    [history_stack |-> Append(slice(hs, 0 - (maxHistoryOf(cfg) - 1)), snapshot),
     redo_stack |-> <<>>]

\* pushSnapshot that leaves the redo stack alone
pushSnapshot_keepsRedo(hs, rs, restoring, snapshot, cfg) ==
    IF restoring THEN [history_stack |-> hs, redo_stack |-> rs]
    ELSE [history_stack |-> Append(slice(hs, 0 - (maxHistoryOf(cfg) - 1)), snapshot),
          redo_stack |-> rs]

\* [history_stack, redo_stack] after pushSnapshot()
pushSnapshot(hs, rs, restoring, snapshot, cfg) ==
    IF restoring THEN [history_stack |-> hs, redo_stack |-> rs]
    ELSE [history_stack |-> Append(slice(hs, 0 - (maxHistoryOf(cfg) - 1)), snapshot),
          redo_stack |-> <<>>]

initializeNextNodeId(ns) ==
    LET nums == {parseInt(ns[i].id) : i \in 1..Len(ns)} \ {NaN}
        max_id == IF \E k \in nums : k > 0 THEN MaxOf(nums) ELSE 0
    IN  max_id + 1

\* generateNodeId() that neither skips taken ids nor advances the counter
generateNodeId_sameEachTime(ns, next) == [id |-> String(next), next_node_id |-> next]

\* [id, next_node_id] after generateNodeId()
generateNodeId(ns, next) ==
    LET free == {k \in next..(next + Len(ns)) : \A i \in 1..Len(ns) : ns[i].id # String(k)}
        k == MinOf(free)
    IN  [id |-> String(k), next_node_id |-> k + 1]

\* restoreFromSnapshot that keeps the nodes of the store the snapshot does not have
restoreFromSnapshot_merging(flow) ==
    LET kept == SelectSeq(nodes, LAMBDA n : \A i \in 1..Len(flow.nodes) : flow.nodes[i].id # n.id)
        ns == MapSeq(flow.nodes, NodeFromJSON) \o kept
    IN  [nodes |-> ns, edges |-> MapSeq(flow.edges, EdgeFromJSON),
         next_node_id |-> initializeNextNodeId(ns)]

\* [nodes, edges, next_node_id] after restoreFromSnapshot(flow); the selection
\* is cleared by the caller-visible clearSelection()
restoreFromSnapshot(flow) ==
    LET ns == MapSeq(flow.nodes, NodeFromJSON)
    IN  [nodes |-> ns, edges |-> MapSeq(flow.edges, EdgeFromJSON),
         next_node_id |-> initializeNextNodeId(ns)]

\* ------------------------------------------------------ connection validator
canConnectPorts(source_port, target_port, target_accept) ==
    \/ source_port = target_port
    \/ /\ target_accept # None
       /\ source_port \in Range(target_accept[1])

getHandle(reg, node_id, handle_id) ==
    IF HandleKey(node_id, handle_id) \in DOMAIN reg
    THEN Some(reg[HandleKey(node_id, handle_id)])
    ELSE None

\* canConnect without the check that the two nodes differ
canConnect_selfAllowed(reg, source_node_id, source_handle_id, target_node_id, target_handle_id) ==
    LET source_handle == getHandle(reg, source_node_id, source_handle_id)
        target_handle == getHandle(reg, target_node_id, target_handle_id)
    IN  /\ source_handle # None /\ target_handle # None
        /\ source_handle[1].type = "output" /\ target_handle[1].type = "input"
        /\ canConnectPorts(source_handle[1].port, target_handle[1].port,
                           target_handle[1].accept)

canConnect(reg, source_node_id, source_handle_id, target_node_id, target_handle_id) ==
    LET source_handle == getHandle(reg, source_node_id, source_handle_id)
        target_handle == getHandle(reg, target_node_id, target_handle_id)
    IN  /\ source_node_id # target_node_id
        /\ source_handle # None /\ target_handle # None
        /\ source_handle[1].type = "output" /\ target_handle[1].type = "input"
        /\ canConnectPorts(source_handle[1].port, target_handle[1].port,
                           target_handle[1].accept)

edgeExists(es, edge) ==
    \E i \in 1..Len(es) :
        /\ es[i].source = edge.source
        /\ es[i].source_handle = edge.source_handle
        /\ es[i].target = edge.target
        /\ es[i].target_handle = edge.target_handle

\* ------------------------------------------------------- group membership
\* One pass of the loop body of updateGroupMembership for the node at index i;
\* [nodes, ok]
groupMembershipStep(ns, group_id, bounds, i) ==
    LET node == ns[i]
        group == ns[FindNode(ns, group_id)]
        node_abs_pos == getAbsolutePosition(ns, node.id)
        \* the centre, doubled to stay in the integers
        cx2 == 2 * node_abs_pos.x + node.computed_width
        cy2 == 2 * node_abs_pos.y + node.computed_height
        is_inside_group == /\ cx2 >= 2 * bounds.left /\ cx2 <= 2 * bounds.right
                           /\ cy2 >= 2 * bounds.top /\ cy2 <= 2 * bounds.bottom
        pi == FindNode(ns, node.parent_id)
    IN  IF node.id = group_id \/ node.type = "group" THEN [nodes |-> ns, ok |-> TRUE]
        ELSE IF ~node_abs_pos.ok THEN [nodes |-> ns, ok |-> FALSE]
        ELSE IF is_inside_group /\ node.parent_id # group_id
             THEN IF ~Truthy(node.parent_id)
                  THEN setNodeParentInternal(ns, node.id, group_id)
                  ELSE IF pi # 0
                          /\ group.computed_width * group.computed_height
                               < ns[pi].computed_width * ns[pi].computed_height
                       THEN setNodeParentInternal(ns, node.id, group_id)
                       ELSE [nodes |-> ns, ok |-> TRUE]
        ELSE IF ~is_inside_group /\ node.parent_id = group_id
             THEN setNodeParentInternal(ns, node.id, Undefined)
             ELSE [nodes |-> ns, ok |-> TRUE]

RECURSIVE groupMembershipLoop(_, _, _, _)
groupMembershipLoop(ns, group_id, bounds, i) ==
    IF i > Len(ns) THEN [nodes |-> ns, ok |-> TRUE]
    ELSE LET r == groupMembershipStep(ns, group_id, bounds, i)
         IN  IF ~r.ok THEN r ELSE groupMembershipLoop(r.nodes, group_id, bounds, i + 1)

\* [nodes, ok] after updateGroupMembership(group_id)
updateGroupMembershipOf(ns, group_id) ==
    LET gi == FindNode(ns, group_id)
        group_abs_pos == getAbsolutePosition(ns, group_id)
        bounds == [left |-> group_abs_pos.x, top |-> group_abs_pos.y,
                   right |-> group_abs_pos.x + ns[gi].computed_width,
                   bottom |-> group_abs_pos.y + ns[gi].computed_height]
    IN  IF gi = 0 \/ ns[gi].type # "group" THEN [nodes |-> ns, ok |-> TRUE]
        ELSE IF ~group_abs_pos.ok THEN [nodes |-> ns, ok |-> FALSE]
        ELSE groupMembershipLoop(ns, group_id, bounds, 1)

\* ---------------------------------------------------------------- clipboard
\* [ok, ids]: the ids of all descendants of node_id
RECURSIVE getAllDescendantRec(_, _, _)
RECURSIVE descendantsOfChildren(_, _, _)
descendantsOfChildren(ns, children, fuel) ==
    IF children = <<>> THEN [ok |-> TRUE, ids |-> {}]
    ELSE LET d == getAllDescendantRec(ns, Head(children).id, fuel)
             rest == descendantsOfChildren(ns, Tail(children), fuel)
         IN  IF ~d.ok THEN d
             ELSE IF ~rest.ok THEN rest
             ELSE [ok |-> TRUE, ids |-> {Head(children).id} \cup d.ids \cup rest.ids]

getAllDescendantRec(ns, node_id, fuel) ==
    IF fuel = 0 THEN [ok |-> FALSE, ids |-> {}]
    ELSE descendantsOfChildren(ns, getChildNodes(ns, node_id), fuel - 1)

getAllDescendantIds(ns, node_id) == getAllDescendantRec(ns, node_id, Depth(ns))

\* [ok, ids]: the selection expanded by the descendants of the selected groups
expandedIds(ns, sel) ==
    LET groups == {id \in Range(sel) :
                      FindNode(ns, id) # 0 /\ ns[FindNode(ns, id)].type = "group"}
    IN  IF \E g \in groups : ~getAllDescendantIds(ns, g).ok
        THEN [ok |-> FALSE, ids |-> {}]
        ELSE [ok |-> TRUE,
              ids |-> Range(sel) \cup UNION {getAllDescendantIds(ns, g).ids : g \in groups}]

\* copySelected() that copies every edge touching the expanded id set
copiedFlow_anyEndpoint(ns, es, expanded_ids) ==
    [nodes |-> MapSeq(SelectSeq(ns, LAMBDA n : n.id \in expanded_ids), toJSONNode),
     edges |-> MapSeq(SelectSeq(es, LAMBDA e : e.source \in expanded_ids
                                               \/ e.target \in expanded_ids),
                      toJSONEdge)]

\* the clipboard that copySelected() stores for the expanded id set
copiedFlow(ns, es, expanded_ids) ==
    [nodes |-> MapSeq(SelectSeq(ns, LAMBDA n : n.id \in expanded_ids), toJSONNode),
     edges |-> MapSeq(SelectSeq(es, LAMBDA e : e.source \in expanded_ids
                                               /\ e.target \in expanded_ids),
                      toJSONEdge)]

\* copySelected() that stores an empty clipboard for an empty selection
copySelectedOf_emptySelectionToo(ns, es, sel, clip) ==
    LET ex == expandedIds(ns, sel)
    IN  IF ~ex.ok THEN clip ELSE Some(copiedFlow(ns, es, ex.ids))

\* the clipboard after copySelected(); a RangeError leaves it as it was
copySelectedOf(ns, es, sel, clip) ==
    LET ex == expandedIds(ns, sel)
    IN  IF Len(sel) = 0 \/ ~ex.ok THEN clip ELSE Some(copiedFlow(ns, es, ex.ids))

\* paste() that does not look at the lock
pasteIgnored_noLockCheck(clip, cfg) == clip = None \/ Len(clip[1].nodes) = 0

\* the early returns of paste()
pasteIgnored(clip, cfg) == clip = None \/ Len(clip[1].nodes) = 0 \/ cfg.locked

\* the ids that count successive generateNodeId() calls return, and the counter
RECURSIVE generateNodeIds(_, _, _)
generateNodeIds(ns, next, count) ==
    IF count = 0 THEN [ids |-> <<>>, next_node_id |-> next]
    ELSE LET g == generateNodeId(ns, next)
             rest == generateNodeIds(ns, g.next_node_id, count - 1)
         IN  [ids |-> <<g.id>> \o rest.ids, next_node_id |-> rest.next_node_id]

plus(a, b) == IF a = NaN \/ b = NaN THEN NaN ELSE a + b

\* the offset of paste(): paste_pos - centre of the top-level nodes' positions
\* (Infinity + -Infinity is NaN when there is no top-level node)
pasteOffset(data, paste_pos) ==
    LET clipboard_ids == {data.nodes[i].id : i \in 1..Len(data.nodes)}
        top == {i \in 1..Len(data.nodes) :
                   ~Truthy(data.nodes[i].parent_id)
                   \/ data.nodes[i].parent_id \notin clipboard_ids}
        xs == {data.nodes[i].position.x : i \in top}
        ys == {data.nodes[i].position.y : i \in top}
    IN  IF top = {} THEN Pos(NaN, NaN)
        ELSE Pos((2 * paste_pos.x - (MinOf(xs) + MaxOf(xs))) \div 2,
                 (2 * paste_pos.y - (MinOf(ys) + MaxOf(ys))) \div 2)

edgeId(source, source_handle, target, target_handle) ==
    "e-" \o source \o "-" \o source_handle \o "-" \o target \o "-" \o target_handle

\* id_map.get(old): the new id of the clipboard node old (the last one, if
\* several clipboard nodes carry the id)
idMap(data, ids, old) == ids[MaxOf({i \in 1..Len(data.nodes) : data.nodes[i].id = old})]

\* the pasted copy of a clipboard node that keeps the parent_id of its original
pastedNode_keepsParent(data, ids, offset, i) ==
    LET node == data.nodes[i]
        clipboard_ids == {data.nodes[k].id : k \in 1..Len(data.nodes)}
        parent_in_clipboard == Truthy(node.parent_id) /\ node.parent_id \in clipboard_ids
    IN  NodeFromJSON(
          [node EXCEPT
             !.id = ids[i],
             !.position = IF parent_in_clipboard THEN node.position
                          ELSE Pos(plus(node.position.x, offset.x),
                                   plus(node.position.y, offset.y))])

\* the pasted copy of the i-th clipboard node, ids being the generated ids
pastedNode(data, ids, offset, i) ==
    LET node == data.nodes[i]
        clipboard_ids == {data.nodes[k].id : k \in 1..Len(data.nodes)}
        parent_in_clipboard == Truthy(node.parent_id) /\ node.parent_id \in clipboard_ids
    IN  NodeFromJSON(
          [node EXCEPT
             !.id = ids[i],
             !.position = IF parent_in_clipboard THEN node.position
                          ELSE Pos(plus(node.position.x, offset.x),
                                   plus(node.position.y, offset.y)),
             !.parent_id = IF parent_in_clipboard THEN idMap(data, ids, node.parent_id)
                           ELSE Undefined])

\* the pasted copy of a clipboard edge
pastedEdge(data, ids, offset, edge, cfg) ==
    LET new_source == idMap(data, ids, edge.source)
        new_target == idMap(data, ids, edge.target)
    IN  EdgeFromJSON(
          [edge EXCEPT
             !.id = edgeId(new_source, edge.source_handle, new_target, edge.target_handle),
             !.source = new_source,
             !.target = new_target,
             !.type = IF edge.type = Undefined THEN cfg.default_edge_type ELSE edge.type,
             !.waypoints = IF edge.waypoints = None THEN None
                           ELSE Some(MapSeq(edge.waypoints[1],
                                     LAMBDA wp : Pos(plus(wp.x, offset.x),
                                                     plus(wp.y, offset.y))))])

\* [nodes, edges, next_node_id]: the new nodes and edges of paste() and the counter
pasted(ns, next, data, paste_pos, cfg) ==
    LET offset == pasteOffset(data, paste_pos)
        gen == generateNodeIds(ns, next, Len(data.nodes))
    IN  [nodes |-> [i \in 1..Len(data.nodes) |-> pastedNode(data, gen.ids, offset, i)],
         edges |-> MapSeq(data.edges, LAMBDA edge : pastedEdge(data, gen.ids, offset, edge, cfg)),
         next_node_id |-> gen.next_node_id]

\* ---------------------------------------------------------- the call record
\* Every call of the host is recorded with its arguments, its outcome, the
\* callbacks it invoked and the serialized graph and stacks it started from.
\* The outcome is the returned value ("true", "false", a node id), "void" for a
\* void method that ran to its end, "ignored" for a void method that took an
\* early return before changing anything, or "RangeError" when it threw.
CallRecord(op, args, ret, cbs) ==
    [op |-> op, args |-> args, ret |-> ret, cbs |-> cbs, inside |-> <<>>,
     pre |-> [json |-> toJSON, history_stack |-> history_stack, redo_stack |-> redo_stack]]

\* A call made while an undo()/redo() is inside its callback is a re-entrant
\* call: it is noted in that call's frame.
registeredAfter(op, args) ==
    IF op = "registerHandle"
    THEN {r \in registered : ~(r[1] = args[1] /\ r[2].id = args[2].id)} \cup {args}
    ELSE IF op = "unregisterHandle"
    THEN {r \in registered : ~(r[1] = args[1] /\ r[2].id = args[2])}
    ELSE registered

Noted(op, args, ret, cbs) ==
    /\ registered' = registeredAfter(op, args)
    /\ calls' = slice(Append(calls, CallRecord(op, args, ret, cbs)), 0 - 3)
    /\ budget' = budget - 1
    /\ frames' = IF frames = <<>> THEN frames
                 ELSE [frames EXCEPT ![1].inside = Append(@, op)]

\* the record of a call of a store method, which leaves the drag state of the
\* Node components alone
Logged(op, args, ret, cbs) ==
    /\ Noted(op, args, ret, cbs)
    /\ UNCHANGED dragging

\* the record of a call that leaves the canvas state alone
Log(op, args, ret, cbs) ==
    /\ Logged(op, args, ret, cbs)
    /\ UNCHANGED view

last == calls[Len(calls)]
Result(ok) == IF ok THEN "void" ELSE "RangeError"

Pushed == pushSnapshot(history_stack, redo_stack, is_restoring, toJSON, config)
PushSnapshotNow ==
    /\ history_stack' = Pushed.history_stack
    /\ redo_stack' = Pushed.redo_stack

\* ------------------------------------------------------------ node operations
addNode(node) ==
    /\ budget > 0
    /\ LET gen == generateNodeId(nodes, next_node_id)
           node_id == IF node.id # "" THEN node.id ELSE gen.id
       IN  /\ PushSnapshotNow
           /\ next_node_id' = IF node.id # "" THEN next_node_id ELSE gen.next_node_id
           /\ nodes' = Append(nodes, NodeStateOf([node EXCEPT !.id = node_id]))
           /\ UNCHANGED <<edges, handle_registry, selected_node_ids, selected_edge_ids,
                          clipboard, is_restoring, config>>
           /\ Log("addNode", <<node.id>>, node_id, <<>>)

removeNode(node_id) ==
    /\ budget > 0
    /\ LET r == removeNodeInternal([nodes |-> nodes, edges |-> edges,
                                    selected_node_ids |-> selected_node_ids, ok |-> TRUE],
                                   node_id)
       IN  /\ PushSnapshotNow
           /\ nodes' = r.nodes
           /\ edges' = r.edges
           /\ selected_node_ids' = r.selected_node_ids
           /\ UNCHANGED <<handle_registry, selected_edge_ids, clipboard, next_node_id,
                          is_restoring, config>>
           /\ Log("removeNode", <<node_id>>, Result(r.ok), <<>>)

\* snap_to_grid is off (the default): the position is stored as given
updateNodePosition(node_id, position) ==
    /\ budget > 0
    /\ LET i == FindNode(nodes, node_id)
       IN  /\ nodes' = IF i = 0 THEN nodes ELSE [nodes EXCEPT ![i].position = position]
           /\ UNCHANGED <<edges, handle_registry, selected_node_ids, selected_edge_ids,
                          clipboard, next_node_id, history_stack, redo_stack,
                          is_restoring, config>>
           /\ Log("updateNodePosition", <<node_id, position>>, "void", <<>>)

\* { ...node.data, ...data }
mergeData(old, data) ==
    [k \in (DOMAIN old) \cup (DOMAIN data) |-> IF k \in DOMAIN data THEN data[k] ELSE old[k]]

updateNodeData(node_id, data) ==
    /\ budget > 0
    /\ LET i == FindNode(nodes, node_id)
       IN  /\ PushSnapshotNow
           /\ nodes' = IF i = 0 THEN nodes
                       ELSE [nodes EXCEPT ![i].data = mergeData(nodes[i].data, data)]
           /\ UNCHANGED <<edges, handle_registry, selected_node_ids, selected_edge_ids,
                          clipboard, next_node_id, is_restoring, config>>
           /\ Log("updateNodeData", <<node_id>>, "void", <<>>)

resizeNode(node_id, width, height) ==
    /\ budget > 0
    /\ LET i == FindNode(nodes, node_id)
       IN  /\ PushSnapshotNow
           /\ nodes' = IF i = 0 THEN nodes
                       ELSE [nodes EXCEPT ![i].width = Some(width), ![i].height = Some(height),
                                          ![i].computed_width = width,
                                          ![i].computed_height = height]
           /\ UNCHANGED <<edges, handle_registry, selected_node_ids, selected_edge_ids,
                          clipboard, next_node_id, is_restoring, config>>
           /\ Log("resizeNode", <<node_id>>, "void", <<>>)

updateGroupMembership(group_id) ==
    /\ budget > 0
    /\ LET r == updateGroupMembershipOf(nodes, group_id)
       IN  /\ nodes' = r.nodes
           /\ UNCHANGED <<edges, handle_registry, selected_node_ids, selected_edge_ids,
                          clipboard, next_node_id, history_stack, redo_stack,
                          is_restoring, config>>
           /\ Log("updateGroupMembership", <<group_id>>, Result(r.ok), <<>>)

setNodeParent(node_id, parent_id) ==
    /\ budget > 0
    /\ LET r == setNodeParentInternal(nodes, node_id, parent_id)
       IN  /\ PushSnapshotNow
           /\ nodes' = r.nodes
           /\ UNCHANGED <<edges, handle_registry, selected_node_ids, selected_edge_ids,
                          clipboard, next_node_id, is_restoring, config>>
           /\ Log("setNodeParent", <<node_id, parent_id>>, Result(r.ok), <<>>)

\* ---------------------------------------------------------- handle operations
registerHandle(node_id, handle) ==
    /\ budget > 0
    /\ LET key == HandleKey(node_id, handle.id)
       IN  /\ handle_registry' = [k \in (DOMAIN handle_registry) \cup {key} |->
                                     IF k = key THEN handle ELSE handle_registry[k]]
           /\ UNCHANGED <<nodes, edges, selected_node_ids, selected_edge_ids, clipboard,
                          next_node_id, history_stack, redo_stack, is_restoring, config>>
           /\ Log("registerHandle", <<node_id, handle>>, "void", <<>>)

unregisterHandle(node_id, handle_id) ==
    /\ budget > 0
    /\ LET key == HandleKey(node_id, handle_id)
       IN  /\ handle_registry' = [k \in (DOMAIN handle_registry) \ {key} |-> handle_registry[k]]
           /\ UNCHANGED <<nodes, edges, selected_node_ids, selected_edge_ids, clipboard,
                          next_node_id, history_stack, redo_stack, is_restoring, config>>
           /\ Log("unregisterHandle", <<node_id, handle_id>>, "void", <<>>)

\* ------------------------------------------------------------ edge operations
\* addEdge without the duplicate check
addEdgeOf_noDuplicateCheck(es, reg, edge, cfg) ==
    IF ~canConnect(reg, edge.source, edge.source_handle, edge.target, edge.target_handle)
    THEN [ok |-> FALSE, edges |-> es]
    ELSE [ok |-> TRUE,
          edges |-> Append(es, [edge EXCEPT !.type = IF edge.type = Undefined
                                                     THEN cfg.default_edge_type
                                                     ELSE edge.type])]

\* [ok, edges]: whether addEdge accepts the edge, and the edges after it
addEdgeOf(es, reg, edge, cfg) ==
    IF ~canConnect(reg, edge.source, edge.source_handle, edge.target, edge.target_handle)
    THEN [ok |-> FALSE, edges |-> es]
    ELSE IF edgeExists(es, edge) THEN [ok |-> FALSE, edges |-> es]
    ELSE [ok |-> TRUE,
          edges |-> Append(es, [edge EXCEPT !.type = IF edge.type = Undefined
                                                     THEN cfg.default_edge_type
                                                     ELSE edge.type])]

addEdge(edge) ==
    /\ budget > 0
    /\ LET r == addEdgeOf(edges, handle_registry, edge, config)
       IN  /\ edges' = r.edges
           /\ IF r.ok THEN PushSnapshotNow ELSE UNCHANGED <<history_stack, redo_stack>>
           /\ UNCHANGED <<nodes, handle_registry, selected_node_ids, selected_edge_ids,
                          clipboard, next_node_id, is_restoring, config>>
           /\ Log("addEdge", <<edge.source, edge.source_handle, edge.target, edge.target_handle>>,
                  IF r.ok THEN "true" ELSE "false",
                  IF r.ok THEN <<"on_connect">> ELSE <<>>)

\* ------------------------------------------------------------------ viewport
Min2(a, b) == IF a <= b THEN a ELSE b
Max2(a, b) == IF a >= b THEN a ELSE b

\* Math.max(min_zoom, Math.min(max_zoom, zoom))
clampZoom(cfg, zoom) == Max2(cfg.min_zoom, Min2(cfg.max_zoom, zoom))

\* a fixed-point product and quotient of a number and a zoom factor
times(a, zoom) == (a * zoom) \div ZoomUnit
over(a, zoom) == (a * ZoomUnit) \div zoom

\* the viewport that setViewport(v) stores
setViewportOf(cfg, v) == [x |-> v.x, y |-> v.y, zoom |-> clampZoom(cfg, v.zoom)]

\* a method that ends in setViewport(v) and touches nothing else
SetViewportNow(op, args, v) ==
    /\ viewport' = setViewportOf(config, v)
    /\ UNCHANGED store
    /\ UNCHANGED <<draft_connection, selection_rect, canvas_width, canvas_height>>
    /\ Logged(op, args, "void", <<"on_viewport_change">>)

setViewport(v) ==
    /\ budget > 0
    /\ SetViewportNow("setViewport", <<v>>, v)

pan(dx, dy) ==
    /\ budget > 0
    /\ SetViewportNow("pan", <<dx, dy>>,
                      [viewport EXCEPT !.x = viewport.x + dx, !.y = viewport.y + dy])

\* delta is a fixed-point number like a zoom factor
zoom(delta, center) ==
    /\ budget > 0
    /\ LET new_zoom == clampZoom(config, times(viewport.zoom, ZoomUnit + delta))
       IN  SetViewportNow("zoom", <<delta, center>>,
              [x |-> center.x - ((center.x - viewport.x) * new_zoom) \div viewport.zoom,
               y |-> center.y - ((center.y - viewport.y) * new_zoom) \div viewport.zoom,
               zoom |-> new_zoom])

zoomIn(step) ==
    /\ budget > 0
    /\ SetViewportNow("zoomIn", <<step>>,
          [viewport EXCEPT !.zoom = Min2(config.max_zoom,
                                         times(viewport.zoom, ZoomUnit + step))])

zoomOut(step) ==
    /\ budget > 0
    /\ SetViewportNow("zoomOut", <<step>>,
          [viewport EXCEPT !.zoom = Max2(config.min_zoom,
                                         times(viewport.zoom, ZoomUnit - step))])

resetZoom ==
    /\ budget > 0
    /\ SetViewportNow("resetZoom", <<>>, [viewport EXCEPT !.zoom = ZoomUnit])

setZoom(z) ==
    /\ budget > 0
    /\ SetViewportNow("setZoom", <<z>>, [viewport EXCEPT !.zoom = clampZoom(config, z)])

\* the viewport that fitView(padding) hands to setViewport for a non-empty,
\* acyclic graph
fitViewOf(ns, cfg, width, height, padding) ==
    LET abs(i) == getAbsolutePosition(ns, ns[i].id)
        min_x == MinOf({abs(i).x : i \in 1..Len(ns)})
        min_y == MinOf({abs(i).y : i \in 1..Len(ns)})
        max_x == MaxOf({abs(i).x + ns[i].computed_width : i \in 1..Len(ns)})
        max_y == MaxOf({abs(i).y + ns[i].computed_height : i \in 1..Len(ns)})
        zoom_x == over(width, max_x - min_x + padding * 2)
        zoom_y == over(height, max_y - min_y + padding * 2)
        new_zoom == clampZoom(cfg, Min2(Min2(zoom_x, zoom_y), ZoomUnit))
    IN  [x |-> width \div 2 - times(min_x + max_x, new_zoom) \div 2,
         y |-> height \div 2 - times(min_y + max_y, new_zoom) \div 2,
         zoom |-> new_zoom]

fitView(padding) ==
    /\ budget > 0
    /\ IF Len(nodes) = 0
       THEN SetViewportNow("fitView", <<padding>>, [viewport EXCEPT !.zoom = ZoomUnit])
       ELSE IF \E i \in 1..Len(nodes) : ~getAbsolutePosition(nodes, nodes[i].id).ok
       THEN /\ UNCHANGED store
            /\ Log("fitView", <<padding>>, "RangeError", <<>>)
       ELSE SetViewportNow("fitView", <<padding>>,
                           fitViewOf(nodes, config, canvas_width, canvas_height, padding))

setCanvasDimensions(width, height) ==
    /\ budget > 0
    /\ /\ canvas_width' = width
       /\ canvas_height' = height
       /\ UNCHANGED store
       /\ UNCHANGED <<viewport, draft_connection, selection_rect>>
       /\ Logged("setCanvasDimensions", <<width, height>>, "void", <<>>)

\* ---------------------------------------------------------- draft connection
\* the port name and the side of the source handle, which the store only
\* keeps for the drawing of the draft, are left out
startConnection(source_node_id, source_handle_id, source_position) ==
    /\ budget > 0
    /\ /\ draft_connection' = Some([source_node_id |-> source_node_id,
                                    source_handle_id |-> source_handle_id,
                                    source_position |-> source_position,
                                    target_position |-> source_position])
       /\ UNCHANGED store
       /\ UNCHANGED <<viewport, selection_rect, canvas_width, canvas_height>>
       /\ Logged("startConnection", <<source_node_id, source_handle_id>>, "void", <<>>)

updateConnection(target_position) ==
    /\ budget > 0
    /\ /\ draft_connection' = IF draft_connection # None
                               THEN Some([draft_connection[1] EXCEPT
                                             !.target_position = target_position])
                               ELSE draft_connection
       /\ UNCHANGED store
       /\ UNCHANGED <<viewport, selection_rect, canvas_width, canvas_height>>
       /\ Logged("updateConnection", <<target_position>>, "void", <<>>)

cancelConnection ==
    /\ budget > 0
    /\ /\ draft_connection' = None
       /\ UNCHANGED store
       /\ UNCHANGED <<viewport, selection_rect, canvas_width, canvas_height>>
       /\ Logged("cancelConnection", <<>>, "void", <<>>)

\* finishConnection that keeps the draft when the edge was refused
finishConnection_keepsRefusedDraft(target_node_id, target_handle_id) ==
    /\ budget > 0
    /\ IF draft_connection = None
       THEN /\ UNCHANGED store
            /\ Log("finishConnection", <<target_node_id, target_handle_id>>, "false", <<>>)
       ELSE LET draft == draft_connection[1]
                edge == FlowEdge(edgeId(draft.source_node_id, draft.source_handle_id,
                                        target_node_id, target_handle_id),
                                 draft.source_node_id, draft.source_handle_id,
                                 target_node_id, target_handle_id, None)
                r == addEdgeOf(edges, handle_registry, edge, config)
            IN  /\ edges' = r.edges
                /\ IF r.ok THEN PushSnapshotNow ELSE UNCHANGED <<history_stack, redo_stack>>
                /\ draft_connection' = IF r.ok THEN None ELSE draft_connection
                /\ UNCHANGED <<nodes, handle_registry, selected_node_ids, selected_edge_ids,
                               clipboard, next_node_id, is_restoring, config>>
                /\ UNCHANGED <<viewport, selection_rect, canvas_width, canvas_height>>
                /\ Logged("finishConnection", <<target_node_id, target_handle_id>>,
                          IF r.ok THEN "true" ELSE "false",
                          IF r.ok THEN <<"on_connect">> ELSE <<>>)

finishConnection(target_node_id, target_handle_id) ==
    /\ budget > 0
    /\ IF draft_connection = None
       THEN /\ UNCHANGED store
            /\ Log("finishConnection", <<target_node_id, target_handle_id>>, "false", <<>>)
       ELSE LET draft == draft_connection[1]
                edge == FlowEdge(edgeId(draft.source_node_id, draft.source_handle_id,
                                        target_node_id, target_handle_id),
                                 draft.source_node_id, draft.source_handle_id,
                                 target_node_id, target_handle_id, None)
                r == addEdgeOf(edges, handle_registry, edge, config)
            IN  /\ edges' = r.edges
                /\ IF r.ok THEN PushSnapshotNow ELSE UNCHANGED <<history_stack, redo_stack>>
                /\ draft_connection' = None
                /\ UNCHANGED <<nodes, handle_registry, selected_node_ids, selected_edge_ids,
                               clipboard, next_node_id, is_restoring, config>>
                /\ UNCHANGED <<viewport, selection_rect, canvas_width, canvas_height>>
                /\ Logged("finishConnection", <<target_node_id, target_handle_id>>,
                          IF r.ok THEN "true" ELSE "false",
                          IF r.ok THEN <<"on_connect">> ELSE <<>>)

\* [edges, selected_edge_ids] after removeEdgeInternal(edge_id)
removeEdgeInternal(es, sel, edge_id) ==
    [edges |-> SelectSeq(es, LAMBDA e : e.id # edge_id),
     selected_edge_ids |-> SetDelete(sel, edge_id)]

removeEdge(edge_id) ==
    /\ budget > 0
    /\ LET r == removeEdgeInternal(edges, selected_edge_ids, edge_id)
       IN  /\ PushSnapshotNow
           /\ edges' = r.edges
           /\ selected_edge_ids' = r.selected_edge_ids
           /\ UNCHANGED <<nodes, handle_registry, selected_node_ids, clipboard,
                          next_node_id, is_restoring, config>>
           /\ Log("removeEdge", <<edge_id>>, "void", <<>>)

FindEdge(es, edge_id) ==
    LET I == {i \in 1..Len(es) : es[i].id = edge_id}
    IN  IF I = {} THEN 0 ELSE MinOf(I)

\* Object.assign(edge, updates), for updates that give a new label
updateEdge(edge_id, label) ==
    /\ budget > 0
    /\ LET i == FindEdge(edges, edge_id)
       IN  /\ PushSnapshotNow
           /\ edges' = IF i = 0 THEN edges ELSE [edges EXCEPT ![i].label = label]
           /\ UNCHANGED <<nodes, handle_registry, selected_node_ids, selected_edge_ids,
                          clipboard, next_node_id, is_restoring, config>>
           /\ Log("updateEdge", <<edge_id>>, "void", <<>>)

\* ---------------------------------------------------------------- waypoints
InsertAt(s, index, v) == SubSeq(s, 1, index) \o <<v>> \o SubSeq(s, index + 1, Len(s))
RemoveAt(s, index) == SubSeq(s, 1, index) \o SubSeq(s, index + 2, Len(s))

\* index is None when the caller gives none; indices are 0-based as in the source
addEdgeWaypoint(edge_id, position, index) ==
    /\ budget > 0
    /\ LET i == FindEdge(edges, edge_id)
           wps == OrElse(edges[i].waypoints, <<>>)
       IN  /\ IF i = 0
              THEN UNCHANGED <<edges, history_stack, redo_stack>>
              ELSE /\ PushSnapshotNow
                   /\ edges' = [edges EXCEPT ![i].waypoints =
                                  IF index # None /\ index[1] >= 0 /\ index[1] <= Len(wps)
                                  THEN Some(InsertAt(wps, index[1], position))
                                  ELSE Some(Append(wps, position))]
           /\ UNCHANGED <<nodes, handle_registry, selected_node_ids, selected_edge_ids,
                          clipboard, next_node_id, is_restoring, config>>
           /\ Log("addEdgeWaypoint", <<edge_id, index>>, IF i = 0 THEN "ignored" ELSE "void", <<>>)

updateEdgeWaypoint(edge_id, waypoint_index, position) ==
    /\ budget > 0
    /\ LET i == FindEdge(edges, edge_id)
       IN  /\ IF i # 0 /\ edges[i].waypoints # None
                 /\ waypoint_index >= 0 /\ waypoint_index < Len(edges[i].waypoints[1])
              THEN /\ PushSnapshotNow
                   /\ edges' = [edges EXCEPT ![i].waypoints =
                                  Some([edges[i].waypoints[1] EXCEPT ![waypoint_index + 1] = position])]
              ELSE UNCHANGED <<edges, history_stack, redo_stack>>
           /\ UNCHANGED <<nodes, handle_registry, selected_node_ids, selected_edge_ids,
                          clipboard, next_node_id, is_restoring, config>>
           /\ Log("updateEdgeWaypoint", <<edge_id, waypoint_index>>,
                  IF i # 0 /\ edges[i].waypoints # None
                     /\ waypoint_index >= 0 /\ waypoint_index < Len(edges[i].waypoints[1])
                  THEN "void" ELSE "ignored", <<>>)

\* removeEdgeWaypoint without the clean-up of an empty waypoints array
removeEdgeWaypoint_keepsEmptyArray(edge_id, waypoint_index) ==
    /\ budget > 0
    /\ LET i == FindEdge(edges, edge_id)
           rest == RemoveAt(edges[i].waypoints[1], waypoint_index)
       IN  /\ IF i # 0 /\ edges[i].waypoints # None
                 /\ waypoint_index >= 0 /\ waypoint_index < Len(edges[i].waypoints[1])
              THEN /\ PushSnapshotNow
                   /\ edges' = [edges EXCEPT ![i].waypoints = Some(rest)]
              ELSE UNCHANGED <<edges, history_stack, redo_stack>>
           /\ UNCHANGED <<nodes, handle_registry, selected_node_ids, selected_edge_ids,
                          clipboard, next_node_id, is_restoring, config>>
           /\ Log("removeEdgeWaypoint", <<edge_id, waypoint_index>>,
                  IF i # 0 /\ edges[i].waypoints # None
                     /\ waypoint_index >= 0 /\ waypoint_index < Len(edges[i].waypoints[1])
                  THEN "void" ELSE "ignored", <<>>)

removeEdgeWaypoint(edge_id, waypoint_index) ==
    /\ budget > 0
    /\ LET i == FindEdge(edges, edge_id)
           rest == RemoveAt(edges[i].waypoints[1], waypoint_index)
       IN  /\ IF i # 0 /\ edges[i].waypoints # None
                 /\ waypoint_index >= 0 /\ waypoint_index < Len(edges[i].waypoints[1])
              THEN /\ PushSnapshotNow
                   /\ edges' = [edges EXCEPT ![i].waypoints =
                                  IF Len(rest) = 0 THEN None ELSE Some(rest)]
              ELSE UNCHANGED <<edges, history_stack, redo_stack>>
           /\ UNCHANGED <<nodes, handle_registry, selected_node_ids, selected_edge_ids,
                          clipboard, next_node_id, is_restoring, config>>
           /\ Log("removeEdgeWaypoint", <<edge_id, waypoint_index>>,
                  IF i # 0 /\ edges[i].waypoints # None
                     /\ waypoint_index >= 0 /\ waypoint_index < Len(edges[i].waypoints[1])
                  THEN "void" ELSE "ignored", <<>>)

clearEdgeWaypoints(edge_id) ==
    /\ budget > 0
    /\ LET i == FindEdge(edges, edge_id)
       IN  /\ IF i # 0 /\ edges[i].waypoints # None
              THEN /\ PushSnapshotNow
                   /\ edges' = [edges EXCEPT ![i].waypoints = None]
              ELSE UNCHANGED <<edges, history_stack, redo_stack>>
           /\ UNCHANGED <<nodes, handle_registry, selected_node_ids, selected_edge_ids,
                          clipboard, next_node_id, is_restoring, config>>
           /\ Log("clearEdgeWaypoints", <<edge_id>>,
                  IF i # 0 /\ edges[i].waypoints # None THEN "void" ELSE "ignored", <<>>)

\* ---------------------------------------------------------------- selection
selectNode(node_id, additive) ==
    /\ budget > 0
    /\ /\ selected_node_ids' = IF additive THEN SetAdd(selected_node_ids, node_id) ELSE <<node_id>>
       /\ selected_edge_ids' = IF additive THEN selected_edge_ids ELSE <<>>
       /\ UNCHANGED <<nodes, edges, handle_registry, clipboard, next_node_id,
                      history_stack, redo_stack, is_restoring, config>>
       /\ Log("selectNode", <<node_id>>, "void", <<"on_node_click">>)

selectEdge(edge_id, additive) ==
    /\ budget > 0
    /\ /\ selected_edge_ids' = IF additive THEN SetAdd(selected_edge_ids, edge_id) ELSE <<edge_id>>
       /\ selected_node_ids' = IF additive THEN selected_node_ids ELSE <<>>
       /\ UNCHANGED <<nodes, edges, handle_registry, clipboard, next_node_id,
                      history_stack, redo_stack, is_restoring, config>>
       /\ Log("selectEdge", <<edge_id>>, "void", <<"on_edge_click">>)

clearSelection ==
    /\ budget > 0
    /\ /\ selected_node_ids' = <<>>
       /\ selected_edge_ids' = <<>>
       /\ UNCHANGED <<nodes, edges, handle_registry, clipboard, next_node_id,
                      history_stack, redo_stack, is_restoring, config>>
       /\ Log("clearSelection", <<>>, "void", <<>>)

\* ------------------------------------------------------- selection rectangle
startSelectionRect(start) ==
    /\ budget > 0
    /\ /\ selection_rect' = Some([start |-> start, end |-> start])
       /\ UNCHANGED store
       /\ UNCHANGED <<viewport, draft_connection, canvas_width, canvas_height>>
       /\ Logged("startSelectionRect", <<start>>, "void", <<>>)

updateSelectionRect(end) ==
    /\ budget > 0
    /\ /\ selection_rect' = IF selection_rect = None THEN None
                             ELSE Some([selection_rect[1] EXCEPT !.end = end])
       /\ UNCHANGED store
       /\ UNCHANGED <<viewport, draft_connection, canvas_width, canvas_height>>
       /\ Logged("updateSelectionRect", <<end>>, "void", <<>>)

getNormalizedRect(rect) ==
    [x |-> Min2(rect.start.x, rect.end.x),
     y |-> Min2(rect.start.y, rect.end.y),
     width |-> Max2(rect.end.x - rect.start.x, rect.start.x - rect.end.x),
     height |-> Max2(rect.end.y - rect.start.y, rect.start.y - rect.end.y)]

\* the nodes that overlap the rectangle, in store order
getNodesInRect(ns, rect) ==
    SelectSeq(ns, LAMBDA node :
        LET node_pos == getAbsolutePosition(ns, node.id)
        IN  ~ \/ node_pos.x + node.computed_width < rect.x
              \/ node_pos.x > rect.x + rect.width
              \/ node_pos.y + node.computed_height < rect.y
              \/ node_pos.y > rect.y + rect.height)

\* the selection after toggling the nodes one after the other
RECURSIVE toggleEach(_, _)
toggleEach(sel, in_rect) ==
    IF in_rect = <<>> THEN sel
    ELSE toggleEach(IF Head(in_rect).id \in Range(sel)
                    THEN SetDelete(sel, Head(in_rect).id)
                    ELSE Append(sel, Head(in_rect).id),
                    Tail(in_rect))

finishSelectionRect ==
    /\ budget > 0
    /\ IF selection_rect = None
       THEN /\ UNCHANGED store
            /\ Log("finishSelectionRect", <<>>, "ignored", <<>>)
       ELSE IF \E i \in 1..Len(nodes) : ~getAbsolutePosition(nodes, nodes[i].id).ok
       THEN /\ UNCHANGED store
            /\ Log("finishSelectionRect", <<>>, "RangeError", <<>>)
       ELSE /\ selected_node_ids' =
                  toggleEach(selected_node_ids,
                             getNodesInRect(nodes, getNormalizedRect(selection_rect[1])))
            /\ selection_rect' = None
            /\ UNCHANGED <<nodes, edges, handle_registry, selected_edge_ids, clipboard,
                           next_node_id, history_stack, redo_stack, is_restoring, config>>
            /\ UNCHANGED <<viewport, draft_connection, canvas_width, canvas_height>>
            /\ Logged("finishSelectionRect", <<>>, "void", <<>>)

RECURSIVE removeNodesEach(_, _)
removeNodesEach(st, node_ids) ==
    IF node_ids = <<>> THEN st
    ELSE LET st1 == removeNodeInternal(st, Head(node_ids))
         IN  IF ~st1.ok THEN st1 ELSE removeNodesEach(st1, Tail(node_ids))

RECURSIVE removeEdgesEach(_, _)
removeEdgesEach(st, edge_ids) ==
    IF edge_ids = <<>> THEN st
    ELSE removeEdgesEach(removeEdgeInternal(st.edges, st.selected_edge_ids, Head(edge_ids)),
                         Tail(edge_ids))

\* deleteSelected() that does not look at allow_delete
deleteIgnored_noAllowDeleteCheck(cfg, node_ids, edge_ids) ==
    cfg.locked \/ (Len(node_ids) = 0 /\ Len(edge_ids) = 0)

\* the early returns of deleteSelected()
deleteIgnored(cfg, node_ids, edge_ids) ==
    ~cfg.allow_delete \/ cfg.locked \/ (Len(node_ids) = 0 /\ Len(edge_ids) = 0)

deleteSelected ==
    /\ budget > 0
    /\ LET node_ids == selected_node_ids
           edge_ids == selected_edge_ids
           rn == removeNodesEach([nodes |-> nodes, edges |-> edges,
                                  selected_node_ids |-> selected_node_ids, ok |-> TRUE],
                                 node_ids)
           re == removeEdgesEach([edges |-> rn.edges, selected_edge_ids |-> selected_edge_ids],
                                 edge_ids)
       IN  IF deleteIgnored(config, node_ids, edge_ids)
           THEN /\ UNCHANGED store
                /\ Log("deleteSelected", <<>>, "ignored", <<>>)
           ELSE /\ PushSnapshotNow
                /\ nodes' = rn.nodes
                /\ selected_node_ids' = rn.selected_node_ids
                /\ edges' = IF rn.ok THEN re.edges ELSE rn.edges
                /\ selected_edge_ids' = IF rn.ok THEN re.selected_edge_ids ELSE selected_edge_ids
                /\ UNCHANGED <<handle_registry, clipboard, next_node_id, is_restoring, config>>
                /\ Log("deleteSelected", IF rn.ok THEN <<node_ids, edge_ids>> ELSE <<>>,
                       Result(rn.ok), IF rn.ok THEN <<"on_delete">> ELSE <<>>)

setLocked(locked) ==
    /\ budget > 0
    /\ /\ config' = [config EXCEPT !.locked = locked]
       /\ UNCHANGED <<nodes, edges, handle_registry, selected_node_ids, selected_edge_ids,
                      clipboard, next_node_id, history_stack, redo_stack, is_restoring>>
       /\ Log("setLocked", <<>>, "void", <<>>)

\* ---------------------------------------------------------------- copy/paste
copySelected ==
    /\ budget > 0
    /\ LET ex == expandedIds(nodes, selected_node_ids)
       IN  /\ clipboard' = copySelectedOf(nodes, edges, selected_node_ids, clipboard)
           /\ UNCHANGED <<nodes, edges, handle_registry, selected_node_ids, selected_edge_ids,
                          next_node_id, history_stack, redo_stack, is_restoring, config>>
           /\ Log("copySelected", <<>>,
                  Result(Len(selected_node_ids) = 0 \/ ex.ok), <<>>)

\* paste(position) from the internal clipboard; position is None when not given
paste(position) ==
    /\ budget > 0
    /\ LET data == clipboard[1]
           paste_pos == OrElse(position, Pos(DefaultPasteX, DefaultPasteY))
           p == pasted(nodes, next_node_id, data, paste_pos, config)
       IN  IF pasteIgnored(clipboard, config)
           THEN /\ UNCHANGED store
                /\ Log("paste", <<position>>, "ignored", <<>>)
           ELSE /\ PushSnapshotNow
                /\ nodes' = nodes \o p.nodes
                /\ edges' = edges \o p.edges
                /\ next_node_id' = p.next_node_id
                /\ selected_node_ids' = [i \in 1..Len(p.nodes) |-> p.nodes[i].id]
                /\ selected_edge_ids' = <<>>
                /\ UNCHANGED <<handle_registry, clipboard, is_restoring, config>>
                /\ Log("paste", <<position>>, "void", <<>>)

\* ---------------------------------------------------------------- undo/redo
\* undo() without the early return on an empty undo stack
undoOf_noEmptyCheck(hs, rs, current) ==
    [done |-> TRUE, history_stack |-> SubSeq(hs, 1, Len(hs) - 1),
     redo_stack |-> Append(rs, current),
     flow |-> IF Len(hs) = 0 THEN current ELSE hs[Len(hs)]]

\* The stack transfer of undo(): [done, history_stack, redo_stack, flow], flow
\* being the snapshot to restore
undoOf(hs, rs, current) ==
    IF Len(hs) = 0
    THEN [done |-> FALSE, history_stack |-> hs, redo_stack |-> rs, flow |-> current]
    ELSE [done |-> TRUE, history_stack |-> SubSeq(hs, 1, Len(hs) - 1),
          redo_stack |-> Append(rs, current), flow |-> hs[Len(hs)]]

\* redo() that does not put the current state back on the undo stack
redoOf_dropsCurrent(hs, rs, current) ==
    IF Len(rs) = 0
    THEN [done |-> FALSE, history_stack |-> hs, redo_stack |-> rs, flow |-> current]
    ELSE [done |-> TRUE, history_stack |-> hs,
          redo_stack |-> SubSeq(rs, 1, Len(rs) - 1), flow |-> rs[Len(rs)]]

redoOf(hs, rs, current) ==
    IF Len(rs) = 0
    THEN [done |-> FALSE, history_stack |-> hs, redo_stack |-> rs, flow |-> current]
    ELSE [done |-> TRUE, history_stack |-> Append(hs, current),
          redo_stack |-> SubSeq(rs, 1, Len(rs) - 1), flow |-> rs[Len(rs)]]

\* the assignments of undo()/redo() from the guard to the end of
\* restoreFromSnapshot, u being the stack transfer
Restore(u) ==
    LET r == restoreFromSnapshot(u.flow)
    IN  /\ history_stack' = u.history_stack
        /\ redo_stack' = u.redo_stack
        /\ nodes' = r.nodes
        /\ edges' = r.edges
        /\ next_node_id' = r.next_node_id
        /\ selected_node_ids' = <<>>
        /\ selected_edge_ids' = <<>>
        /\ UNCHANGED <<handle_registry, clipboard, config>>

\* undo() with a callback that calls nothing back (or no callback)
undo ==
    /\ budget > 0
    /\ LET u == undoOf(history_stack, redo_stack, toJSON)
       IN  IF ~u.done
           THEN /\ UNCHANGED store
                /\ Log("undo", <<>>, "false", <<>>)
           ELSE /\ Restore(u)
                /\ is_restoring' = FALSE
                /\ Log("undo", <<>>, "true", <<"on_undo">>)

redo ==
    /\ budget > 0
    /\ LET u == redoOf(history_stack, redo_stack, toJSON)
       IN  IF ~u.done
           THEN /\ UNCHANGED store
                /\ Log("redo", <<>>, "false", <<>>)
           ELSE /\ Restore(u)
                /\ is_restoring' = FALSE
                /\ Log("redo", <<>>, "true", <<"on_redo">>)

\* undo()/redo() up to the call of on_undo/on_redo: the guard flag is set and
\* the callback is running; what it calls are further actions
undoEnter ==
    /\ budget > 0
    /\ LET u == undoOf(history_stack, redo_stack, toJSON)
       IN  /\ frames = <<>>
           /\ u.done
           /\ Restore(u)
           /\ is_restoring' = TRUE
           /\ frames' = <<[op |-> "undo", inside |-> <<>>,
                           pre |-> [json |-> toJSON, history_stack |-> history_stack,
                                    redo_stack |-> redo_stack]]>>
           /\ budget' = budget - 1
           /\ UNCHANGED <<calls, registered, dragging>>
           /\ UNCHANGED view

redoEnter ==
    /\ budget > 0
    /\ LET u == redoOf(history_stack, redo_stack, toJSON)
       IN  /\ frames = <<>>
           /\ u.done
           /\ Restore(u)
           /\ is_restoring' = TRUE
           /\ frames' = <<[op |-> "redo", inside |-> <<>>,
                           pre |-> [json |-> toJSON, history_stack |-> history_stack,
                                    redo_stack |-> redo_stack]]>>
           /\ budget' = budget - 1
           /\ UNCHANGED <<calls, registered, dragging>>
           /\ UNCHANGED view

\* the callback returns (ret = "true") or throws (ret = "throws"): the finally
\* block clears the guard flag either way
callbackEnds(ret) ==
    /\ budget > 0
    /\ frames # <<>>
    /\ /\ is_restoring' = FALSE
       /\ frames' = <<>>
       /\ calls' = slice(Append(calls,
                      [op |-> frames[1].op, args |-> <<>>, ret |-> ret,
                       cbs |-> <<"on_" \o frames[1].op>>, inside |-> frames[1].inside,
                       pre |-> frames[1].pre]), 0 - 3)
       /\ budget' = budget - 1
       /\ UNCHANGED <<nodes, edges, handle_registry, selected_node_ids, selected_edge_ids,
                      clipboard, next_node_id, history_stack, redo_stack, config, registered,
                      dragging>>
       /\ UNCHANGED view

\* the public pushSnapshot(), as the drag handlers call it
pushSnapshotCall ==
    /\ budget > 0
    /\ /\ PushSnapshotNow
       /\ UNCHANGED <<nodes, edges, handle_registry, selected_node_ids, selected_edge_ids,
                      clipboard, next_node_id, is_restoring, config>>
       /\ Log("pushSnapshot", <<>>, "void", <<>>)

clearHistory ==
    /\ budget > 0
    /\ /\ history_stack' = <<>>
       /\ redo_stack' = <<>>
       /\ UNCHANGED <<nodes, edges, handle_registry, selected_node_ids, selected_edge_ids,
                      clipboard, next_node_id, is_restoring, config>>
       /\ Log("clearHistory", <<>>, "void", <<>>)

fromJSON(flow) ==
    /\ budget > 0
    /\ LET r == restoreFromSnapshot(flow)
       IN  /\ nodes' = r.nodes
           /\ edges' = r.edges
           /\ next_node_id' = r.next_node_id
           /\ selected_node_ids' = <<>>
           /\ selected_edge_ids' = <<>>
           /\ history_stack' = IF is_restoring THEN history_stack ELSE <<>>
           /\ redo_stack' = IF is_restoring THEN redo_stack ELSE <<>>
           /\ UNCHANGED <<handle_registry, clipboard, is_restoring, config>>
           /\ Log("fromJSON", <<flow>>, "void", <<>>)

\* the public canConnect(), as the connection drag and the host call it
canConnectCall(source_node_id, source_handle_id, target_node_id, target_handle_id) ==
    /\ budget > 0
    /\ UNCHANGED store
    /\ Log("canConnect",
           <<source_node_id, source_handle_id, target_node_id, target_handle_id>>,
           IF canConnect(handle_registry, source_node_id, source_handle_id,
                         target_node_id, target_handle_id)
           THEN "true" ELSE "false",
           <<>>)

\* ------------------------------------------------------------ initial states
\* new FlowState(initial_nodes, initial_edges, config): the constructor's
\* defaults, with max_history as the host configures it (None: not configured)
ConfigOf(max_history) ==
    [locked |-> FALSE, allow_delete |-> TRUE, max_history |-> max_history,
     default_edge_type |-> "bezier",
     min_zoom |-> ZoomUnit \div 10, max_zoom |-> 4 * ZoomUnit]

\* the field initializers of the canvas state
ViewConstructed ==
    /\ viewport = [x |-> 0, y |-> 0, zoom |-> ZoomUnit]
    /\ draft_connection = None
    /\ selection_rect = None
    /\ canvas_width = 800
    /\ canvas_height = 600
    /\ dragging = None

\* A group "1" holding a nested group "3" and a node "2", and a free node "a";
\* one edge with a waypoint from "2" to "a".
InitialNodes ==
    << FlowNode("1", "group", 0, 0, Some(200), Some(200), Undefined),
       FlowNode("3", "group", 20, 20, Some(100), Some(100), "1"),
       FlowNode("2", "node", 40, 40, Some(40), Some(40), "1"),
       FlowNode("a", "node", 400, 0, Some(40), Some(40), Undefined) >>

InitialEdges ==
    << [FlowEdge("e1", "2", "out", "a", "in", Some(<<Pos(200, 100)>>))
          EXCEPT !.type = "straight"] >>

\* the handles the node components of "2" and "a" register when they mount
Mounted ==
    { <<"2", HandleState("out", "output", "x", None)>>,
      <<"a", HandleState("in", "input", "x", None)>>,
      <<"a", HandleState("in2", "input", "y", Some(<<"x">>))>>,
      <<"a", HandleState("in3", "input", "y", None)>> }

MountedHandles ==
    [k \in {HandleKey(m[1], m[2].id) : m \in Mounted} |->
        (CHOOSE m \in Mounted : HandleKey(m[1], m[2].id) = k)[2]]

Constructed(initial_nodes, initial_edges, cfg, left) ==
    /\ nodes = MapSeq(initial_nodes, NodeStateOf)
    /\ edges = initial_edges
    /\ handle_registry = <<>>
    /\ registered = {}
    /\ ViewConstructed
    /\ selected_node_ids = <<>>
    /\ selected_edge_ids = <<>>
    /\ clipboard = None
    /\ next_node_id = initializeNextNodeId(MapSeq(initial_nodes, NodeStateOf))
    /\ history_stack = <<>>
    /\ redo_stack = <<>>
    /\ is_restoring = FALSE
    /\ config = cfg
    /\ frames = <<>>
    /\ calls = <<>>
    /\ budget = left

\* The store after construction and the first render; in the second initial
\* state the host has also selected "1", copied it, and added "a" and the edge
\* to the selection (selectNode, copySelected, selectNode and selectEdge with
\* additive = true), none of which touches the history.
Rendered(cfg, used, left) ==
    LET ns == MapSeq(InitialNodes, NodeStateOf)
    IN  /\ nodes = ns
        /\ edges = InitialEdges
        /\ handle_registry = MountedHandles
        /\ registered = Mounted
        /\ ViewConstructed
        /\ selected_node_ids = IF used THEN <<"1", "a">> ELSE <<>>
        /\ selected_edge_ids = IF used THEN <<"e1">> ELSE <<>>
        /\ clipboard = IF used
                       THEN Some(copiedFlow(ns, InitialEdges, expandedIds(ns, <<"1">>).ids))
                       ELSE None
        /\ next_node_id = initializeNextNodeId(ns)
        /\ history_stack = <<>>
        /\ redo_stack = <<>>
        /\ is_restoring = FALSE
        /\ config = cfg
        /\ frames = <<>>
        /\ calls = <<>>
        /\ budget = left

Init == \E used \in BOOLEAN : Rendered(ConfigOf(None), used, MaxSteps)

\* ------------------------------------------------- the general specification
NewNodes ==
    { FlowNode("", "node", 20, 20, None, None, Undefined),
      FlowNode("b", "node", 60, 60, Some(20), Some(20), "1") }

NewEdges ==
    { FlowEdge("e2", "2", "out", "a", "in2", None),    \* accepted through accept
      FlowEdge("e3", "2", "out", "a", "in", None),     \* a duplicate of e1
      FlowEdge("e4", "2", "out", "a", "in3", None),    \* port types differ
      FlowEdge("e5", "a", "in", "2", "out", None) }    \* input to output

Next ==
    \/ \E node \in NewNodes : addNode(node)
    \/ \E node_id \in {"1", "zz"} : removeNode(node_id)
    \/ updateNodePosition("2", Pos(60, 60))
    \/ updateNodeData("2", [label |-> "x"])
    \/ resizeNode("2", 60, 60)
    \/ \E parent_id \in {"3", "2"} : setNodeParent("2", parent_id)
    \/ \E edge \in NewEdges : addEdge(edge)
    \/ removeEdge("e1")
    \/ updateEdge("e1", "L")
    \/ \E index \in {None, Some(0)} : addEdgeWaypoint("e1", Pos(20, 20), index)
    \/ \E index \in {0, 1} : updateEdgeWaypoint("e1", index, Pos(40, 40))
    \/ \E index \in {0, 1} : removeEdgeWaypoint("e1", index)
    \/ clearEdgeWaypoints("e1")
    \/ selectNode("2", TRUE)
    \/ deleteSelected
    \/ copySelected
    \/ paste(None)
    \/ undo
    \/ redo

Spec == Init /\ [][Next]_vars

\* ======================================================== claims: history
prev == calls[Len(calls) - 1]
IsCall(op) == budget' # budget /\ last'.op = op

HistoryOps ==
    {"addNode", "removeNode", "updateNodeData", "resizeNode", "setNodeParent",
     "addEdge", "removeEdge", "updateEdge", "addEdgeWaypoint", "updateEdgeWaypoint",
     "removeEdgeWaypoint", "clearEdgeWaypoints", "deleteSelected", "paste"}

\* the call was one of the history-recording operations and was not turned away
\* (addEdge returned true, the waypoint index was in range, the selection or the
\* clipboard was not empty)
Recording(c) == c.op \in HistoryOps /\ c.ret \notin {"false", "ignored"}

\* C4: one history-recording operation followed by undo() makes toJSON() equal
\* to what it returned immediately before the operation.
C4_UndoRestoresPriorSnapshot ==
    (Len(calls) >= 2 /\ last.op = "undo" /\ Recording(prev))
        => (last.ret = "true" /\ toJSON = prev.pre.json)

\* a deleteSelected over two nodes and an edge has been undone
C4_Witness ==
    /\ Len(calls) >= 2
    /\ last.op = "undo" /\ prev.op = "deleteSelected" /\ prev.ret = "void"
    /\ Len(toJSON.nodes) >= Len(last.pre.json.nodes) + 2
    /\ Len(toJSON.edges) > Len(last.pre.json.edges)

\* C10: addEdge returns true exactly when canConnect holds and the tuple is not
\* present; on false nothing changes and on_connect is not called; on true one
\* edge is appended, the pre-state is pushed as one history entry and on_connect
\* is called once.
C10_AddEdgeAllOrNothing ==
    [][ IsCall("addEdge") =>
          LET a == last'.args
              valid == /\ canConnect(handle_registry, a[1], a[2], a[3], a[4])
                       /\ ~\E i \in 1..Len(edges) :
                              <<edges[i].source, edges[i].source_handle,
                                edges[i].target, edges[i].target_handle>> = a
          IN  /\ (last'.ret = "true") <=> valid
              /\ last'.ret \in {"true", "false"}
              /\ ~valid => /\ UNCHANGED store
                           /\ last'.cbs = <<>>
              /\ valid => /\ Len(edges') = Len(edges) + 1
                          /\ SubSeq(edges', 1, Len(edges)) = edges
                          /\ LET e == edges'[Len(edges')]
                             IN  <<e.source, e.source_handle, e.target, e.target_handle>> = a
                          /\ Len(history_stack) < maxHistoryOf(config)
                                => history_stack' = Append(history_stack, toJSON)
                          /\ last'.cbs = <<"on_connect">>
                          /\ UNCHANGED <<nodes, handle_registry, selected_node_ids,
                                         selected_edge_ids, clipboard>>
      ]_vars

\* an accepted and a refused addEdge have both happened
C10_Witness ==
    /\ \E i \in 1..Len(calls) : calls[i].op = "addEdge" /\ calls[i].ret = "true"
    /\ \E i \in 1..Len(calls) : calls[i].op = "addEdge" /\ calls[i].ret = "false"
    /\ Len(edges) = 2

\* ------------------------------------------------ the history specification
\* Few operations and longer runs, for each way max_history can be configured.
InitHistory ==
    \E max_history \in {None, Some(1), Some(2)} :
        Rendered(ConfigOf(max_history), FALSE, MaxDeep)

NextHistory ==
    \/ addNode(FlowNode("", "node", 20, 20, None, None, Undefined))
    \/ removeNode("1")
    \/ addEdge(FlowEdge("e2", "2", "out", "a", "in2", None))
    \/ updateNodePosition("2", Pos(60, 60))
    \/ selectNode("a", FALSE)
    \/ undo
    \/ redo

SpecHistory == InitHistory /\ [][NextHistory]_vars

\* C5: operation, undo(), redo() gives the serialized graph and the undo stack
\* of right after the operation and an empty redo stack; redo() then undo()
\* gives the serialized graph and both stacks of before the redo().
C5_UndoRedoRoundTrip ==
    /\ (Len(calls) = 3 /\ last.op = "redo" /\ prev.op = "undo" /\ Recording(calls[1]))
          => /\ last.ret = "true"
             /\ toJSON = prev.pre.json
             /\ history_stack = prev.pre.history_stack
             /\ redo_stack = <<>>
    /\ (Len(calls) >= 2 /\ last.op = "undo" /\ prev.op = "redo" /\ prev.ret = "true")
          => /\ last.ret = "true"
             /\ toJSON = prev.pre.json
             /\ history_stack = prev.pre.history_stack
             /\ redo_stack = prev.pre.redo_stack

\* two operations, undo, redo, undo: both halves of C5 have been exercised on
\* stacks that hold other entries too
C5_Witness ==
    /\ Len(calls) = 3
    /\ calls[1].op = "undo" /\ calls[2].op = "redo" /\ calls[3].op = "undo"
    /\ last.ret = "true"
    /\ Len(history_stack) >= 1 /\ Len(redo_stack) >= 1
    /\ toJSON # last.pre.json

\* C6 (as claimed): the undo stack never holds more than max_history entries.
C6_StackBounded == Len(history_stack) <= maxHistoryOf(config)

\* C7: a successful undoable mutation leaves the redo stack empty; undo() adds
\* exactly one entry to the redo stack and keeps the others; redo() removes
\* exactly the newest one.
C7_RedoStackDiscipline ==
    /\ (calls # <<>> /\ Recording(last)) => redo_stack = <<>>
    /\ (calls # <<>> /\ last.op = "undo" /\ last.ret = "true")
          => /\ Len(redo_stack) = Len(last.pre.redo_stack) + 1
             /\ SubSeq(redo_stack, 1, Len(redo_stack) - 1) = last.pre.redo_stack
    /\ (calls # <<>> /\ last.op = "undo" /\ last.ret = "false")
          => redo_stack = last.pre.redo_stack
    /\ (calls # <<>> /\ last.op = "redo" /\ last.ret = "true")
          => redo_stack = SubSeq(last.pre.redo_stack, 1, Len(last.pre.redo_stack) - 1)

\* a mutation has emptied a redo stack that held two entries
C7_Witness ==
    /\ Len(calls) = 3
    /\ calls[1].op = "undo" /\ calls[2].op = "undo" /\ Len(calls[2].pre.redo_stack) = 1
    /\ Recording(last) /\ Len(last.pre.redo_stack) = 2
    /\ redo_stack = <<>>

\* C9: undo() on an empty undo stack and redo() on an empty redo stack return
\* false, change nothing of the store and call no callback.
C9_EmptyStackNoOp ==
    [][ /\ (IsCall("undo") /\ history_stack = <<>>)
            => (last'.ret = "false" /\ last'.cbs = <<>> /\ UNCHANGED store)
        /\ (IsCall("redo") /\ redo_stack = <<>>)
            => (last'.ret = "false" /\ last'.cbs = <<>> /\ UNCHANGED store)
      ]_vars

\* a refused undo() with a non-empty redo stack and a selection, and a refused redo()
C9_Witness ==
    /\ Len(calls) = 3
    /\ calls[1].op = "redo" /\ calls[1].ret = "false"
    /\ calls[1].pre.history_stack # <<>>
    /\ last.op = "undo" /\ last.ret = "false"
    /\ redo_stack # <<>> /\ nodes # <<>>

\* ================================================= claims: the parent relation
InitTree == \E used \in BOOLEAN : Rendered(ConfigOf(None), used, MaxSteps)

NextTree ==
    \/ \E node_id \in {"1", "2", "a"}, parent_id \in {"1", "3", "a", Undefined} :
          setNodeParent(node_id, parent_id)
    \/ \E group_id \in {"1", "3"} : updateGroupMembership(group_id)
    \/ updateNodePosition("2", Pos(400, 400))
    \/ addNode(FlowNode("b", "node", 60, 60, Some(20), Some(20), "1"))
    \/ removeNode("3")
    \/ selectNode("1", FALSE)
    \/ deleteSelected
    \/ copySelected
    \/ paste(None)
    \/ undo
    \/ redo

SpecTree == InitTree /\ [][NextTree]_vars

parentsOf(ns, S) ==
    {ns[FindNode(ns, id)].parent_id :
        id \in {x \in S : FindNode(ns, x) # 0 /\ Truthy(ns[FindNode(ns, x)].parent_id)}}

RECURSIVE ancestorsUpTo(_, _, _)
ancestorsUpTo(ns, S, k) ==
    IF k = 0 THEN S ELSE ancestorsUpTo(ns, S \cup parentsOf(ns, S), k - 1)

\* the nodes reached from node_id by following parent_id one or more times
ancestorsOf(ns, node_id) == ancestorsUpTo(ns, parentsOf(ns, {node_id}), Len(ns))

acyclic(ns) == \A i \in 1..Len(ns) : ns[i].id \notin ancestorsOf(ns, ns[i].id)

\* C1 (as claimed): in every reachable state no node reaches itself by
\* following parent_id links; a node that is its own parent counts as a cycle.
C1_ParentRelationAcyclic == acyclic(nodes)

\* C2 (as claimed): setNodeParent(A, B) with B a descendant of A changes neither
\* the nodes, the edges, the selection, the undo stack nor the redo stack.
C2_RejectedReparentChangesNothing ==
    [][ (IsCall("setNodeParent") /\ acyclic(nodes)
         /\ last'.args[1] \in ancestorsOf(nodes, last'.args[2]))
           => UNCHANGED <<nodes, edges, selected_node_ids, selected_edge_ids,
                          history_stack, redo_stack>>
      ]_vars

absoluteOfAll(ns, ids) == [id \in ids |-> getAbsolutePosition(ns, id)]

\* C3 (as claimed): an accepted setNodeParent(n, p), p an existing node that is
\* not a descendant of n, or none, leaves getAbsolutePosition of every node as
\* it was.
C3_ReparentKeepsAbsolutePositions ==
    [][ (/\ IsCall("setNodeParent") /\ acyclic(nodes)
         /\ FindNode(nodes, last'.args[1]) # 0
         /\ \/ last'.args[2] = Undefined
            \/ /\ FindNode(nodes, last'.args[2]) # 0
               /\ last'.args[1] \notin ancestorsOf(nodes, last'.args[2]))
           => /\ last'.ret = "void"
              /\ absoluteOfAll(nodes', {nodes[i].id : i \in 1..Len(nodes)})
                   = absoluteOfAll(nodes, {nodes[i].id : i \in 1..Len(nodes)})
      ]_vars

\* The same with the request setNodeParent(n, n) left out: re-basing on another
\* node, or on none, keeps every absolute position.
RebaseKeepsAbsolutePositions ==
    [][ (/\ IsCall("setNodeParent") /\ acyclic(nodes)
         /\ FindNode(nodes, last'.args[1]) # 0
         /\ last'.args[1] # last'.args[2]
         /\ \/ last'.args[2] = Undefined
            \/ /\ FindNode(nodes, last'.args[2]) # 0
               /\ last'.args[1] \notin ancestorsOf(nodes, last'.args[2]))
           => /\ last'.ret = "void"
              /\ acyclic(nodes')
              /\ absoluteOfAll(nodes', {nodes[i].id : i \in 1..Len(nodes)})
                   = absoluteOfAll(nodes, {nodes[i].id : i \in 1..Len(nodes)})
      ]_vars

\* ============================================ claims: re-entrant callbacks
EmptyFlow == [nodes |-> <<>>, edges |-> <<>>]

InitCallbacks == Rendered(ConfigOf(None), FALSE, MaxCbSteps)

\* What the host calls, and what its on_undo/on_redo callback calls while
\* undoEnter/redoEnter has left the call inside the callback.
NextCallbacks ==
    \/ addNode(FlowNode("", "node", 20, 20, None, None, Undefined))
    \/ removeNode("1")
    \/ addEdge(FlowEdge("e2", "2", "out", "a", "in2", None))
    \/ pushSnapshotCall
    \/ fromJSON(EmptyFlow)
    \/ clearHistory
    \/ undo
    \/ redo
    \/ undoEnter
    \/ redoEnter
    \/ \E ret \in {"true", "throws"} : callbackEnds(ret)

SpecCallbacks == InitCallbacks /\ [][NextCallbacks]_vars

StackOps == {"undo", "redo", "clearHistory"}

\* the stacks after one undo()/redo() that started from the recorded state
transferred(c) ==
    IF c.op = "undo"
    THEN [history_stack |-> SubSeq(c.pre.history_stack, 1, Len(c.pre.history_stack) - 1),
          redo_stack |-> Append(c.pre.redo_stack, c.pre.json)]
    ELSE [history_stack |-> Append(c.pre.history_stack, c.pre.json),
          redo_stack |-> SubSeq(c.pre.redo_stack, 1, Len(c.pre.redo_stack) - 1)]

Returned(c) == c.op \in {"undo", "redo"} /\ c.ret \in {"true", "throws"}

\* C8 (as claimed): one undo() or redo() call, with whatever store operations
\* its callback invokes re-entrantly, moves exactly one entry from one stack to
\* the other, and the guard flag is clear when the call ends, also by a throw.
C8_AnyReentrantCall ==
    (frames = <<>> /\ calls # <<>> /\ Returned(last))
        => /\ ~is_restoring
           /\ Len(history_stack) = Len(transferred(last).history_stack)
           /\ Len(redo_stack) = Len(transferred(last).redo_stack)

\* C8 (amended): the same for callbacks that invoke any store operations other
\* than undo(), redo() and clearHistory(); the stacks are then exactly the ones
\* the transfer left, and the flag stays set for the whole callback.
C8_GuardedReentrantCall ==
    /\ (frames # <<>> /\ Range(frames[1].inside) \cap StackOps = {}) => is_restoring
    /\ (frames = <<>> /\ calls # <<>> /\ Returned(last)
          /\ Range(last.inside) \cap StackOps = {})
          => /\ ~is_restoring
             /\ history_stack = transferred(last).history_stack
             /\ redo_stack = transferred(last).redo_stack

\* an undo() whose callback added a node and then threw has ended
C8_Witness ==
    /\ frames = <<>>
    /\ calls # <<>> /\ last.op = "undo" /\ last.ret = "throws"
    /\ "addNode" \in Range(last.inside)
    /\ Range(last.inside) \cap StackOps = {}
    /\ Len(nodes) > Len(last.pre.json.nodes) \/ Len(nodes) < Len(last.pre.json.nodes)

\* ================================================ claims: connection validation
\* Handles registered and unregistered in any order, and canConnect asked for
\* any pair; node and handle ids are free strings and may hold the separator.
Registrations ==
    Mounted \cup
    { <<"2:out", HandleState("b", "output", "x", None)>>,
      <<"2", HandleState("in", "input", "x", None)>>,
      <<"a", HandleState("in", "output", "x", None)>> }

InitConnect ==
    \/ Constructed(InitialNodes, InitialEdges, ConfigOf(None), MaxConnSteps)
    \/ Rendered(ConfigOf(None), FALSE, MaxConnSteps)

NextConnect ==
    \/ \E r \in Registrations : registerHandle(r[1], r[2])
    \/ \E node_id \in {"2", "a"}, handle_id \in {"out", "in", "out:b"} :
          unregisterHandle(node_id, handle_id)
    \/ \E sn \in {"2", "a"}, sh \in {"out", "out:b", "in"},
          tn \in {"a", "2"}, th \in {"in", "in2", "in3"} : canConnectCall(sn, sh, tn, th)

SpecConnect == InitConnect /\ [][NextConnect]_vars

registeredAs(node_id, handle_id) ==
    {r[2] : r \in {q \in registered : q[1] = node_id /\ q[2].id = handle_id}}

\* what the validator is specified to answer from the registrations in force
connectable(sn, sh, tn, th) ==
    /\ sn # tn
    /\ \E s \in registeredAs(sn, sh), t \in registeredAs(tn, th) :
          /\ s.type = "output"
          /\ t.type = "input"
          /\ \/ s.port = t.port
             \/ t.accept # None /\ s.port \in Range(t.accept[1])

\* C11 (as claimed): canConnect(sn, sh, tn, th) is true exactly when sn differs
\* from tn, both (sn, sh) and (tn, th) are registered, the source is an output,
\* the target an input, and the source port equals the target port or is in
\* the target's accept list.
C11_CanConnectIffCompatible ==
    (calls # <<>> /\ last.op = "canConnect")
        => ((last.ret = "true")
              <=> connectable(last.args[1], last.args[2], last.args[3], last.args[4]))

PlainIds == {"1", "2", "3", "a", "out", "in", "in2", "in3"}

\* The same when no node id and no handle id holds the separator ":".
CanConnectIffCompatiblePlainIds ==
    (/\ calls # <<>> /\ last.op = "canConnect"
     /\ \A i \in 1..4 : last.args[i] \in PlainIds
     /\ \A r \in registered : r[1] \in PlainIds /\ r[2].id \in PlainIds)
        => ((last.ret = "true")
              <=> connectable(last.args[1], last.args[2], last.args[3], last.args[4]))

\* ===================================================== claims: removeNode
\* n and the nodes that reach n by following parent_id
withDescendants(ns, n) ==
    {n} \cup {ns[i].id : i \in {j \in 1..Len(ns) : n \in ancestorsOf(ns, ns[j].id)}}

\* C12: removeNode(n) on an acyclic graph removes n, every transitive descendant
\* of n and every edge with an endpoint among them, takes their ids out of
\* selected_node_ids, and leaves every other node and edge exactly as before.
C12_RemoveNodeCascades ==
    [][ (IsCall("removeNode") /\ acyclic(nodes))
          => LET gone == withDescendants(nodes, last'.args[1])
             IN  /\ last'.ret = "void"
                 /\ nodes' = SelectSeq(nodes, LAMBDA n : n.id \notin gone)
                 /\ edges' = SelectSeq(edges, LAMBDA e : e.source \notin gone
                                                        /\ e.target \notin gone)
                 /\ selected_node_ids'
                      = SelectSeq(selected_node_ids, LAMBDA id : id \notin gone)
      ]_vars

\* group "1" was removed while "1" and "a" were selected: its nested group, its
\* child and the child's edge to "a" are gone, "a" is still there and selected
C12_Witness ==
    /\ calls # <<>> /\ last.op = "removeNode" /\ last.args = <<"1">>
    /\ Len(last.pre.json.nodes) - Len(nodes) >= 3
    /\ Len(last.pre.json.edges) > Len(edges)
    /\ FindNode(nodes, "a") # 0
    /\ selected_node_ids = <<"a">>

\* ========================================================= claims: locked mode
InitLocked ==
    \E locked \in BOOLEAN, used \in BOOLEAN :
        Rendered([ConfigOf(None) EXCEPT !.locked = locked], used, MaxSteps)

NextLocked ==
    \/ \E locked \in BOOLEAN : setLocked(locked)
    \/ deleteSelected
    \/ removeNode("1")
    \/ removeEdge("e1")
    \/ addEdge(FlowEdge("e2", "2", "out", "a", "in2", None))
    \/ setNodeParent("a", "3")
    \/ updateGroupMembership("1")
    \/ updateNodePosition("2", Pos(400, 400))
    \/ selectNode("2", FALSE)
    \/ copySelected
    \/ paste(None)
    \/ undo
    \/ redo

SpecLocked == InitLocked /\ [][NextLocked]_vars

StructuralOps ==
    {"deleteSelected", "removeNode", "removeEdge", "addEdge", "setNodeParent",
     "updateGroupMembership", "paste"}

\* C13 (as claimed): while the store is locked, deleteSelected, removeNode,
\* removeEdge, addEdge, setNodeParent, updateGroupMembership and paste leave the
\* nodes and the edges unchanged.
C13_LockedKeepsGraph ==
    [][ (config.locked /\ budget' # budget /\ last'.op \in StructuralOps)
          => UNCHANGED <<nodes, edges>>
      ]_vars

\* The operations that read the lock: deleteSelected and paste.
LockedDeleteSelectedAndPasteKeepGraph ==
    [][ (config.locked /\ budget' # budget /\ last'.op \in {"deleteSelected", "paste"})
          => (last'.ret = "ignored" /\ UNCHANGED store)
      ]_vars

\* ======================================================== claims: unknown ids
\* C14 (as claimed): removeNode, updateNodeData, resizeNode and setNodeParent
\* with a node id that is not in the store, and removeEdge and updateEdge with
\* an edge id that is not in the store, leave nodes, edges, selection, the undo
\* stack and the redo stack as they were.
C14_UnknownIdChangesNothing ==
    [][ (/\ budget' # budget
         /\ \/ /\ last'.op \in {"removeNode", "updateNodeData", "resizeNode", "setNodeParent"}
               /\ FindNode(nodes, last'.args[1]) = 0
            \/ /\ last'.op \in {"removeEdge", "updateEdge"}
               /\ FindEdge(edges, last'.args[1]) = 0)
          => UNCHANGED <<nodes, edges, selected_node_ids, selected_edge_ids,
                         history_stack, redo_stack>>
      ]_vars

\* ============================================================ claims: clipboard
\* The initial graph with group "1" away from the origin.
MovedNodes ==
    [InitialNodes EXCEPT ![1] = FlowNode("1", "group", 60, 20, Some(200), Some(200), Undefined)]

\* The rendered store after the host selected the nodes sel (selectNode) and,
\* if there are any, copied them (copySelected).
Copied(initial_nodes, sel, cfg, left) ==
    LET ns == MapSeq(initial_nodes, NodeStateOf)
    IN  /\ nodes = ns
        /\ edges = InitialEdges
        /\ handle_registry = MountedHandles
        /\ registered = Mounted
        /\ ViewConstructed
        /\ selected_node_ids = sel
        /\ selected_edge_ids = <<>>
        /\ clipboard = copySelectedOf(ns, InitialEdges, sel, None)
        /\ next_node_id = initializeNextNodeId(ns)
        /\ history_stack = <<>>
        /\ redo_stack = <<>>
        /\ is_restoring = FALSE
        /\ config = cfg
        /\ frames = <<>>
        /\ calls = <<>>
        /\ budget = left

InitClipboard ==
    \E initial_nodes \in {InitialNodes, MovedNodes},
       sel \in {<<>>, <<"1", "a">>, <<"2", "a">>} :
        Copied(initial_nodes, sel, ConfigOf(None), MaxClipSteps)

NextClipboard ==
    \/ \E node_id \in {"1", "a", "zz"}, additive \in BOOLEAN : selectNode(node_id, additive)
    \/ clearSelection
    \/ copySelected
    \/ \E position \in {None, Some(Pos(0, 0))} : paste(position)
    \/ addNode(FlowNode("5", "node", 20, 20, None, None, Undefined))
    \/ removeNode("2")
    \/ updateNodePosition("2", Pos(60, 60))
    \/ updateNodeData("2", [label |-> "x"])
    \/ deleteSelected
    \/ \E locked \in BOOLEAN : setLocked(locked)
    \/ undo
    \/ redo
    \/ fromJSON(EmptyFlow)

SpecClipboard == InitClipboard /\ [][NextClipboard]_vars

idsOf(ns) == {ns[i].id : i \in 1..Len(ns)}

\* the selection with the descendants of its group-type nodes, by parent_id
withGroupContents(ns, sel) ==
    Range(sel) \cup
    UNION {withDescendants(ns, g) :
             g \in {id \in Range(sel) : ns[FindNode(ns, id)].type = "group"}}

\* C15: copySelected with a non-empty selection S of nodes of the store puts on
\* the clipboard exactly S and the transitive descendants of the group-type
\* nodes of S, and exactly the edges with both endpoints among them.
C15_CopyExpandsGroups ==
    [][ (/\ IsCall("copySelected")
         /\ selected_node_ids # <<>>
         /\ acyclic(nodes)
         /\ \A id \in Range(selected_node_ids) : FindNode(nodes, id) # 0)
          => LET expanded == withGroupContents(nodes, selected_node_ids)
             IN  /\ clipboard' # None
                 /\ clipboard'[1].nodes
                      = MapSeq(SelectSeq(nodes, LAMBDA n : n.id \in expanded), toJSONNode)
                 /\ idsOf(clipboard'[1].nodes) = expanded
                 /\ clipboard'[1].edges
                      = MapSeq(SelectSeq(edges, LAMBDA e : e.source \in expanded
                                                          /\ e.target \in expanded),
                               toJSONEdge)
                 /\ \A e \in Range(clipboard'[1].edges) :
                       e.source \in expanded /\ e.target \in expanded
      ]_vars

\* group "1" alone was copied: its nested group and its child came along, the
\* edge from the child to the node "a" outside did not
C15_Witness ==
    /\ calls # <<>> /\ last.op = "copySelected" /\ last.ret = "void"
    /\ selected_node_ids = <<"1">>
    /\ clipboard # None
    /\ idsOf(clipboard[1].nodes) = {"1", "2", "3"}
    /\ clipboard[1].edges = <<>>
    /\ edges # <<>>

\* the nodes and edges a paste step appended
newNodes == SubSeq(nodes', Len(nodes) + 1, Len(nodes'))
newEdges == SubSeq(edges', Len(edges) + 1, Len(edges'))

\* the pasted copy of the clipboard node with id old
copyOf(old) == newNodes[CHOOSE i \in 1..Len(clipboard[1].nodes) : clipboard[1].nodes[i].id = old].id

\* the pasted copies of the clipboard nodes with id old
copiesOf(old) ==
    {newNodes[i].id : i \in {k \in 1..Len(clipboard[1].nodes) : clipboard[1].nodes[k].id = old}}

Pasting == IsCall("paste") /\ last'.ret = "void"

\* C16: every paste adds one copy of the clipboard: as many nodes and edges,
\* the same types, data, sizes, parent links and edge handles under the map
\* from old to new ids; the new ids are distinct from each other and from every
\* id already in the store, earlier copies included, and every pasted edge has
\* both endpoints in its own copy. The map from old to new ids is a map when
\* the clipboard nodes have distinct ids.
C16_PasteAddsDisjointCopies ==
    [][ Pasting
          => LET d == clipboard[1]
                 distinct == Cardinality(idsOf(d.nodes)) = Len(d.nodes)
             IN  /\ Len(nodes') = Len(nodes) + Len(d.nodes)
                 /\ Len(edges') = Len(edges) + Len(d.edges)
                 /\ Cardinality(idsOf(newNodes)) = Len(d.nodes)
                 /\ idsOf(newNodes) \cap idsOf(nodes) = {}
                 /\ \A i \in 1..Len(d.nodes) :
                       /\ newNodes[i].type = d.nodes[i].type
                       /\ newNodes[i].data = d.nodes[i].data
                       /\ newNodes[i].width = d.nodes[i].width
                       /\ newNodes[i].height = d.nodes[i].height
                       /\ (distinct /\ d.nodes[i].parent_id \in idsOf(d.nodes))
                             => newNodes[i].parent_id = copyOf(d.nodes[i].parent_id)
                       /\ d.nodes[i].parent_id \notin idsOf(d.nodes)
                             => newNodes[i].parent_id \notin idsOf(newNodes)
                 /\ \A j \in 1..Len(d.edges) :
                       /\ distinct => newEdges[j].source = copyOf(d.edges[j].source)
                       /\ distinct => newEdges[j].target = copyOf(d.edges[j].target)
                       /\ newEdges[j].source_handle = d.edges[j].source_handle
                       /\ newEdges[j].target_handle = d.edges[j].target_handle
                       /\ newEdges[j].source \in idsOf(newNodes)
                       /\ newEdges[j].target \in idsOf(newNodes)
      ]_vars

\* a clipboard of a group with its contents, an outside node and an edge has
\* been pasted three times in a row
C16_Witness ==
    /\ Len(calls) = 3
    /\ \A i \in 1..3 : calls[i].op = "paste" /\ calls[i].ret = "void"
    /\ Len(clipboard[1].nodes) = 4 /\ Len(clipboard[1].edges) = 1
    /\ Len(nodes) = 16 /\ Len(edges) = 4
    /\ Cardinality(idsOf(nodes)) = 16

\* C17: a pasted node whose original parent is on the clipboard gets the new id
\* of that parent as parent_id and keeps its stored position; every other pasted
\* node gets no parent; no pasted node has a parent outside the pasted set, and
\* the nodes and edges that were there before are not modified.
C17_PasteRemapsParents ==
    [][ Pasting
          => LET d == clipboard[1]
             IN  /\ \A i \in 1..Len(d.nodes) :
                       IF d.nodes[i].parent_id \in idsOf(d.nodes)
                       THEN /\ newNodes[i].parent_id \in copiesOf(d.nodes[i].parent_id)
                            /\ newNodes[i].position = d.nodes[i].position
                       ELSE newNodes[i].parent_id = Undefined
                 /\ \A n \in Range(newNodes) :
                       n.parent_id = Undefined \/ n.parent_id \in idsOf(newNodes)
                 /\ SubSeq(nodes', 1, Len(nodes)) = nodes
                 /\ SubSeq(edges', 1, Len(edges)) = edges
      ]_vars

\* a group with its contents and an outside node was pasted: the copy of the
\* group has no parent, its child points at the copy and kept its position
C17_Witness ==
    /\ calls # <<>> /\ last.op = "paste" /\ last.ret = "void"
    /\ idsOf(clipboard[1].nodes) = {"1", "2", "3", "a"}
    /\ \E i, j \in 1..Len(nodes) :
          /\ i > Len(last.pre.json.nodes)
          /\ j > Len(last.pre.json.nodes)
          /\ nodes[i].type = "group" /\ nodes[i].parent_id = Undefined
          /\ nodes[j].parent_id = nodes[i].id
          /\ nodes[j].position = Pos(40, 40)

\* the clipboard nodes whose parent, if they have one, is not on the clipboard
topLevel(d) == {i \in 1..Len(d.nodes) : d.nodes[i].parent_id \notin idsOf(d.nodes)}

\* target_point - centre of the bounding box of the points ps
offsetTo(target, ps) ==
    Pos((2 * target.x - (MinOf({q.x : q \in ps}) + MaxOf({q.x : q \in ps}))) \div 2,
        (2 * target.y - (MinOf({q.y : q \in ps}) + MaxOf({q.y : q \in ps}))) \div 2)

absolute(ns, id) == Pos(getAbsolutePosition(ns, id).x, getAbsolutePosition(ns, id).y)

\* the store is as it was when the clipboard was copied
JustCopied ==
    \/ calls = <<>> /\ clipboard # None
    \/ calls # <<>> /\ last.op = "copySelected" /\ last.ret = "void"
       /\ selected_node_ids # <<>>

translated(d, target) ==
    offsetTo(target, {absolute(nodes, d.nodes[i].id) : i \in topLevel(d)})

\* C18 (as claimed): the absolute position of the pasted copy of every
\* top-level clipboard node is the original's absolute position at copy time
\* plus target_point minus the bounding-box centre of the top-level originals'
\* absolute positions; the waypoints of pasted edges move by the same offset.
C18_PasteTranslatesAbsolutePositions ==
    [][ (Pasting /\ JustCopied /\ acyclic(nodes))
          => LET d == clipboard[1]
                 target == OrElse(last'.args[1], Pos(DefaultPasteX, DefaultPasteY))
                 offset == translated(d, target)
             IN  /\ \A i \in topLevel(d) :
                       absolute(nodes', newNodes[i].id)
                         = Pos(absolute(nodes, d.nodes[i].id).x + offset.x,
                               absolute(nodes, d.nodes[i].id).y + offset.y)
                 /\ \A j \in 1..Len(d.edges) :
                       d.edges[j].waypoints # None
                         => newEdges[j].waypoints
                              = Some(MapSeq(d.edges[j].waypoints[1],
                                       LAMBDA wp : Pos(wp.x + offset.x, wp.y + offset.y)))
      ]_vars

\* The same when every top-level clipboard node is a root of the graph, so that
\* its stored position is its absolute position.
PasteTranslatesRoots ==
    [][ (/\ Pasting /\ JustCopied /\ acyclic(nodes)
         /\ \A i \in topLevel(clipboard[1]) : clipboard[1].nodes[i].parent_id = Undefined)
          => LET d == clipboard[1]
                 target == OrElse(last'.args[1], Pos(DefaultPasteX, DefaultPasteY))
                 offset == translated(d, target)
             IN  /\ \A i \in topLevel(d) :
                       absolute(nodes', newNodes[i].id)
                         = Pos(absolute(nodes, d.nodes[i].id).x + offset.x,
                               absolute(nodes, d.nodes[i].id).y + offset.y)
                 /\ \A j \in 1..Len(d.edges) :
                       d.edges[j].waypoints # None
                         => newEdges[j].waypoints
                              = Some(MapSeq(d.edges[j].waypoints[1],
                                       LAMBDA wp : Pos(wp.x + offset.x, wp.y + offset.y)))
      ]_vars

\* C19: paste with no clipboard, with a clipboard of zero nodes, or on a locked
\* store changes neither the nodes, the edges, the two selection sets, the undo
\* stack nor the redo stack.
C19_PasteNoOp ==
    [][ (/\ IsCall("paste")
         /\ \/ clipboard = None
            \/ clipboard # None /\ Len(clipboard[1].nodes) = 0
            \/ config.locked)
          => /\ last'.ret = "ignored"
             /\ UNCHANGED <<nodes, edges, selected_node_ids, selected_edge_ids,
                            history_stack, redo_stack>>
      ]_vars

\* a paste was refused on a locked store that holds a clipboard with nodes and
\* a non-empty undo stack
C19_Witness ==
    /\ calls # <<>> /\ last.op = "paste" /\ last.ret = "ignored"
    /\ config.locked
    /\ clipboard # None /\ Len(clipboard[1].nodes) > 0
    /\ history_stack # <<>>

\* C20: the clipboard changes only in copySelected with a non-empty node
\* selection; every other step leaves its nodes and edges as they were.
C20_ClipboardOnlyChangedByCopy ==
    [][ clipboard' # clipboard
          => (IsCall("copySelected") /\ selected_node_ids # <<>>)
      ]_vars

\* the copied originals were removed and the graph replaced by an empty one,
\* and the clipboard still holds its nodes
C20_Witness ==
    /\ Len(calls) >= 2
    /\ prev.op = "removeNode" /\ last.op = "fromJSON"
    /\ nodes = <<>>
    /\ clipboard # None /\ "2" \in idsOf(clipboard[1].nodes)

\* ======================================================= claims: serialization
MaxJsonSteps == 3

\* Flows as a host writes them: every optional field present somewhere and
\* absent somewhere, an empty and a two-point waypoint list, nodes out of
\* parent order.
AuthoredNode(id, type, x, y, data, width, height, parent_id, z_index) ==
    [id |-> id, type |-> type, position |-> Pos(x, y), data |-> data,
     width |-> width, height |-> height, parent_id |-> parent_id, z_index |-> z_index]

AuthoredEdge(id, source, source_handle, target, target_handle, type, label, waypoints, style, animated, color) ==
    [id |-> id, source |-> source, source_handle |-> source_handle,
     target |-> target, target_handle |-> target_handle, type |-> type,
     label |-> label, waypoints |-> waypoints, style |-> style,
     animated |-> animated, color |-> color]

Flows ==
    { EmptyFlow,
      [nodes |-> << AuthoredNode("n2", "node", 40, 60, [label |-> "x"], None, None, "7", Some(2)),
                    AuthoredNode("7", "group", 0 - 20, 0, <<>>, Some(200), Some(100),
                                 Undefined, Some(0)) >>,
       edges |-> << AuthoredEdge("k1", "n2", "out", "7", "in", "step", "L",
                                 Some(<<Pos(80, 20), Pos(20, 80)>>), "dashed",
                                 Some(TRUE), "red"),
                    AuthoredEdge("k2", "7", "out", "n2", "in", Undefined, Undefined,
                                 Some(<<>>), Undefined, Some(FALSE), Undefined) >>],
      [nodes |-> << AuthoredNode("2", "node", 0, 0, <<>>, Some(40), None, Undefined, None) >>,
       edges |-> << AuthoredEdge("e1", "2", "out", "2", "in", "bezier", "",
                                 None, "solid", None, "") >>] }

InitJSON ==
    \/ Constructed(<<>>, <<>>, ConfigOf(None), MaxJsonSteps)
    \/ Rendered(ConfigOf(None), FALSE, MaxJsonSteps)

\* Loading a host's flow, or the store's own serialization, between mutations.
NextJSON ==
    \/ \E flow \in Flows : fromJSON(flow)
    \/ fromJSON(toJSON)
    \/ addNode(FlowNode("", "node", 20, 20, None, None, Undefined))
    \/ resizeNode("2", 60, 60)
    \/ \E edge_id \in {"e1", "k2"} : addEdgeWaypoint(edge_id, Pos(20, 20), Some(0))
    \/ \E edge_id \in {"e1", "k1"} : removeEdgeWaypoint(edge_id, 0)
    \/ selectNode("2", FALSE)
    \/ undo

SpecJSON == InitJSON /\ [][NextJSON]_vars

\* C21: fromJSON(x) followed by toJSON() gives x back, field by field and in
\* order; in particular toJSON(), fromJSON of it, toJSON() gives the first
\* result again.
C21_SerializationRoundTrip ==
    (calls # <<>> /\ last.op = "fromJSON") => toJSON = last.args[1]

\* a host flow was loaded, a waypoint was added to one of its edges, and the
\* store's own serialization of that state was loaded again
C21_Witness ==
    /\ Len(calls) = 3
    /\ calls[1].op = "fromJSON" /\ Len(calls[1].args[1].edges) = 2
    /\ calls[2].op = "addEdgeWaypoint" /\ calls[2].ret = "void"
    /\ calls[3].op = "fromJSON" /\ calls[3].args[1] = calls[3].pre.json
    /\ toJSON # calls[1].args[1]

\* =================================================== claims: identifier uniqueness
\* C22 (as claimed): in every reachable state no two nodes of the store share
\* an id.
C22_NodeIdsDistinct == Cardinality(idsOf(nodes)) = Len(nodes)

\* An id that addNode generated for an empty id is not the id of a node of the
\* store, and the node is appended under it.
GeneratedNodeIdIsFresh ==
    [][ (IsCall("addNode") /\ last'.args[1] = "")
          => /\ last'.ret \notin idsOf(nodes)
             /\ last'.ret # ""
             /\ nodes'[Len(nodes')].id = last'.ret
      ]_vars

\* A step that is not an addNode with an id of the caller keeps the node ids
\* distinct if they were, or is an undo/redo/fromJSON that restores a snapshot.
OnlySuppliedIdsCollide ==
    [][ (/\ C22_NodeIdsDistinct
         /\ ~(IsCall("addNode") /\ last'.args[1] # "")
         /\ ~IsCall("undo") /\ ~IsCall("redo") /\ ~IsCall("fromJSON"))
          => C22_NodeIdsDistinct'
      ]_vars

\* The rendered graph without edges: nothing registered and nothing selected,
\* or the handles mounted and the nodes "2" and "a" selected.
MaxEdgeSteps == 3

InitEdges ==
    \E mounted \in BOOLEAN :
        /\ nodes = MapSeq(InitialNodes, NodeStateOf)
        /\ edges = <<>>
        /\ handle_registry = IF mounted THEN MountedHandles ELSE <<>>
        /\ registered = IF mounted THEN Mounted ELSE {}
        /\ ViewConstructed
        /\ selected_node_ids = IF mounted THEN <<"2", "a">> ELSE <<>>
        /\ selected_edge_ids = <<>>
        /\ clipboard = None
        /\ next_node_id = initializeNextNodeId(MapSeq(InitialNodes, NodeStateOf))
        /\ history_stack = <<>>
        /\ redo_stack = <<>>
        /\ is_restoring = FALSE
        /\ config = ConfigOf(None)
        /\ frames = <<>>
        /\ calls = <<>>
        /\ budget = MaxEdgeSteps

\* The host adds edges under ids of its own; the canvas adds them by dragging
\* from the output of "2" to an input of "a" or of "2" itself.
NextEdges ==
    \/ registerHandle("2", HandleState("in", "input", "x", None))
    \/ unregisterHandle("a", "in2")
    \/ \E target_handle \in {"in", "in2"} :
          addEdge(FlowEdge("e1", "2", "out", "a", target_handle, None))
    \/ startConnection("2", "out", Pos(0, 0))
    \/ \E target_node_id \in {"a", "2"} : finishConnection(target_node_id, "in")
    \/ removeEdge("e1")
    \/ removeNode("3")
    \/ deleteSelected
    \/ copySelected
    \/ paste(None)
    \/ undo
    \/ redo

SpecEdges == InitEdges /\ [][NextEdges]_vars

\* C23 (as claimed): in every reachable state no two edges of the store share
\* an id.
C23_EdgeIdsDistinct == Cardinality({edges[i].id : i \in 1..Len(edges)}) = Len(edges)

tupleOf(e) == <<e.source, e.source_handle, e.target, e.target_handle>>

MaxWpSteps == 3

InitWaypoints == Rendered(ConfigOf(None), FALSE, MaxWpSteps)

\* Indices before, inside and after the waypoint list of "e1", which starts
\* with one waypoint; "zz" is no edge of the store.
NextWaypoints ==
    \/ \E edge_id \in {"e1", "zz"}, index \in {None, Some(0 - 1), Some(0), Some(1), Some(3)} :
          addEdgeWaypoint(edge_id, Pos(20, 20), index)
    \/ \E edge_id \in {"e1", "zz"}, index \in {0 - 1, 0, 1, 2} :
          updateEdgeWaypoint(edge_id, index, Pos(40, 40))
    \/ \E edge_id \in {"e1", "zz"}, index \in {0 - 1, 0, 1, 2} :
          removeEdgeWaypoint(edge_id, index)
    \/ clearEdgeWaypoints("e1")
    \/ undo
    \/ redo

SpecWaypoints == InitWaypoints /\ [][NextWaypoints]_vars

\* the number of waypoints of the edge (0 for an edge without a waypoint list
\* and for an unknown edge)
waypointCount(es, edge_id) ==
    IF FindEdge(es, edge_id) = 0 THEN 0
    ELSE Len(OrElse(es[FindEdge(es, edge_id)].waypoints, <<>>))

\* C25 (as claimed): addEdgeWaypoint with an index outside [0, length], and
\* updateEdgeWaypoint and removeEdgeWaypoint with an index outside
\* [0, length - 1], on an edge without waypoints or on an unknown edge, leave
\* the edges, the undo stack and the redo stack unchanged.
C25_OutOfRangeWaypointNoOp ==
    [][ (/\ budget' # budget
         /\ \/ /\ last'.op = "addEdgeWaypoint"
               /\ \/ FindEdge(edges, last'.args[1]) = 0
                  \/ /\ last'.args[2] # None
                     /\ \/ last'.args[2][1] < 0
                        \/ last'.args[2][1] > waypointCount(edges, last'.args[1])
            \/ /\ last'.op \in {"updateEdgeWaypoint", "removeEdgeWaypoint"}
               /\ \/ last'.args[2] < 0
                  \/ last'.args[2] > waypointCount(edges, last'.args[1]) - 1)
          => UNCHANGED <<edges, history_stack, redo_stack>>
      ]_vars

\* The same for updateEdgeWaypoint and removeEdgeWaypoint, and for
\* addEdgeWaypoint on an unknown edge.
OutOfRangeUpdateRemoveNoOp ==
    [][ (/\ budget' # budget
         /\ \/ /\ last'.op = "addEdgeWaypoint"
               /\ FindEdge(edges, last'.args[1]) = 0
            \/ /\ last'.op \in {"updateEdgeWaypoint", "removeEdgeWaypoint"}
               /\ \/ last'.args[2] < 0
                  \/ last'.args[2] > waypointCount(edges, last'.args[1]) - 1)
          => (last'.ret = "ignored" /\ UNCHANGED store)
      ]_vars

\* ============================================================= claims: viewport
MaxViewSteps == 3

\* new FlowState(nodes, edges, { min_zoom, max_zoom }): the defaults 0.1 and 4,
\* limits that leave the factor 1 outside, and limits that are equal
ZoomLimits ==
    { [min_zoom |-> ZoomUnit \div 10, max_zoom |-> 4 * ZoomUnit],
      [min_zoom |-> 2 * ZoomUnit, max_zoom |-> 4 * ZoomUnit],
      [min_zoom |-> ZoomUnit \div 4, max_zoom |-> ZoomUnit \div 2],
      [min_zoom |-> ZoomUnit, max_zoom |-> ZoomUnit] }

InitView ==
    \E limits \in ZoomLimits :
        Rendered([ConfigOf(None) EXCEPT !.min_zoom = limits.min_zoom,
                                        !.max_zoom = limits.max_zoom],
                 FALSE, MaxViewSteps)

NextView ==
    \/ \E z \in {ZoomUnit \div 20, 9 * ZoomUnit} : setViewport([x |-> 20, y |-> 0 - 40, zoom |-> z])
    \/ pan(20, 0 - 20)
    \/ \E delta \in {ZoomUnit \div 2, 0 - (ZoomUnit \div 2), 0 - 2 * ZoomUnit} :
          zoom(delta, Pos(100, 100))
    \/ \E step \in {ZoomUnit \div 5, 5 * ZoomUnit} : zoomIn(step)
    \/ \E step \in {ZoomUnit \div 5, 2 * ZoomUnit} : zoomOut(step)
    \/ resetZoom
    \/ \E z \in {0, 3 * ZoomUnit} : setZoom(z)
    \/ fitView(50)
    \/ setCanvasDimensions(100, 2000)
    \/ fromJSON(EmptyFlow)

SpecView == InitView /\ [][NextView]_vars

\* C26 (as claimed): in every reachable state, the initial one included,
\* min_zoom <= viewport.zoom <= max_zoom.
C26_ZoomWithinLimits ==
    config.min_zoom <= viewport.zoom /\ viewport.zoom <= config.max_zoom

ViewportOps ==
    {"setViewport", "pan", "zoom", "zoomIn", "zoomOut", "resetZoom", "setZoom", "fitView"}

\* Every viewport operation leaves the zoom within the limits, whatever it was.
ViewportOpsClamp ==
    [][ (budget' # budget /\ last'.op \in ViewportOps) => C26_ZoomWithinLimits' ]_vars

\* With limits that have the factor 1 between them the zoom is always within
\* them.
ZoomWithinLimitsAroundOne ==
    (config.min_zoom <= ZoomUnit /\ ZoomUnit <= config.max_zoom) => C26_ZoomWithinLimits

\* ============================================================ claims: selection
MaxSelSteps == 4

InitSelect == Rendered(ConfigOf(None), FALSE, MaxSelSteps)

\* Clicks without a modifier key, and a marquee that is dragged from a point
\* inside node "a" or, after an update, spans the group "1" and its contents.
NextSelect ==
    \/ \E node_id \in {"1", "a"} : selectNode(node_id, FALSE)
    \/ selectEdge("e1", FALSE)
    \/ clearSelection
    \/ startSelectionRect(Pos(420, 20))
    \/ updateSelectionRect(Pos(0, 100))
    \/ finishSelectionRect
    \/ copySelected
    \/ paste(None)
    \/ deleteSelected
    \/ undo
    \/ redo

SpecSelect == InitSelect /\ [][NextSelect]_vars

\* C27 (as claimed): after any sequence of non-additive selectNode and
\* selectEdge, clearSelection, marquee selection, paste, deleteSelected, undo
\* and redo, at most one of the two selection sets is non-empty.
C27_SelectionSetsExclusive == selected_node_ids = <<>> \/ selected_edge_ids = <<>>

\* A non-additive selectNode(n) leaves exactly n selected and no edge, a
\* non-additive selectEdge(e) exactly e and no node; and every operation of the
\* claim but finishSelectionRect keeps at most one set non-empty.
ClickSelectsExactlyOne ==
    [][ /\ IsCall("selectNode")
            => (selected_node_ids' = <<last'.args[1]>> /\ selected_edge_ids' = <<>>)
        /\ IsCall("selectEdge")
            => (selected_edge_ids' = <<last'.args[1]>> /\ selected_node_ids' = <<>>)
        /\ (C27_SelectionSetsExclusive /\ ~IsCall("finishSelectionRect"))
            => C27_SelectionSetsExclusive'
      ]_vars

\* ======================================================= claims: deleteSelected
MaxDelSteps == 3

\* new FlowState(nodes, edges, { allow_delete, locked }), with nothing selected
\* or with "1", "a" and the edge "e1" selected
InitDelete ==
    \E allow_delete \in BOOLEAN, locked \in BOOLEAN, used \in BOOLEAN :
        Rendered([ConfigOf(None) EXCEPT !.allow_delete = allow_delete, !.locked = locked],
                 used, MaxDelSteps)

NextDelete ==
    \/ deleteSelected
    \/ \E node_id \in {"2", "zz"} : selectNode(node_id, TRUE)
    \/ selectEdge("e1", FALSE)
    \/ clearSelection
    \/ \E locked \in BOOLEAN : setLocked(locked)
    \/ addNode(FlowNode("", "node", 20, 20, None, None, Undefined))
    \/ undo
    \/ redo

SpecDelete == InitDelete /\ [][NextDelete]_vars

\* C28: deleteSelected changes neither nodes, edges, selection nor the stacks
\* and calls no callback when allow_delete is false, when the store is locked
\* or when both selection sets are empty; otherwise it pushes the state it
\* started from as one history entry for the whole batch.
C28_DeleteSelectedGuards ==
    [][ IsCall("deleteSelected")
          => IF \/ ~config.allow_delete
                \/ config.locked
                \/ (selected_node_ids = <<>> /\ selected_edge_ids = <<>>)
             THEN /\ UNCHANGED <<nodes, edges, selected_node_ids, selected_edge_ids,
                                 history_stack, redo_stack>>
                  /\ last'.cbs = <<>>
             ELSE /\ Len(history_stack) < maxHistoryOf(config)
                        => history_stack' = Append(history_stack, toJSON)
                  /\ Len(history_stack') <= Len(history_stack) + 1
      ]_vars

\* a deleteSelected was ignored on the locked store and, after unlocking,
\* removed two selected nodes with their contents and the selected edge under
\* one history entry
C28_Witness ==
    /\ Len(calls) = 3
    /\ calls[1].op = "deleteSelected" /\ calls[1].ret = "ignored"
    /\ calls[2].op = "setLocked"
    /\ calls[3].op = "deleteSelected" /\ calls[3].ret = "void"
    /\ calls[3].pre.json = calls[1].pre.json
    /\ Len(calls[3].pre.json.nodes) = 4 /\ nodes = <<>> /\ edges = <<>>
    /\ Len(history_stack) = 1
    /\ config.allow_delete

\* =================================================== claims: absolute positions
MaxMoveSteps == 3

\* group G at (0,0), 200 x 200, holding node C at relative (50,50)
ScenarioNodes ==
    << FlowNode("G", "group", 0, 0, Some(200), Some(200), Undefined),
       FlowNode("C", "node", 50, 50, Some(40), Some(40), "G") >>

InitMove ==
    \E initial_nodes \in {InitialNodes, MovedNodes, ScenarioNodes} :
        Constructed(initial_nodes, <<>>, ConfigOf(None), MaxMoveSteps)

\* Drags of groups, of nodes inside groups and of free nodes, between
\* re-parentings that make chains of two and three levels.
NextMove ==
    \/ \E node_id \in {"1", "3", "2", "G", "C", "zz"},
          position \in {Pos(300, 300), Pos(0 - 20, 60)} : updateNodePosition(node_id, position)
    \/ \E node_id \in {"a", "2"} : setNodeParent(node_id, "3")
    \/ setNodeParent("3", Undefined)
    \/ addNode(FlowNode("", "node", 20, 20, None, None, "3"))
    \/ removeNode("3")
    \/ undo

SpecMove == InitMove /\ [][NextMove]_vars

\* the sum of the stored x (y) positions of the nodes of ns with an id in S
RECURSIVE sumX(_, _)
sumX(ns, S) ==
    IF S = {} THEN 0
    ELSE LET id == CHOOSE id \in S : TRUE
         IN  (IF FindNode(ns, id) = 0 THEN 0 ELSE ns[FindNode(ns, id)].position.x)
             + sumX(ns, S \ {id})

RECURSIVE sumY(_, _)
sumY(ns, S) ==
    IF S = {} THEN 0
    ELSE LET id == CHOOSE id \in S : TRUE
         IN  (IF FindNode(ns, id) = 0 THEN 0 ELSE ns[FindNode(ns, id)].position.y)
             + sumY(ns, S \ {id})

C30_RestoreReplacesGraph ==
    [][ /\ (IsCall("undo") /\ last'.ret = "true")
            => LET popped == history_stack[Len(history_stack)]
               IN  /\ toJSON' = popped
                   /\ nodes' = MapSeq(popped.nodes, NodeFromJSON)
                   /\ edges' = MapSeq(popped.edges, EdgeFromJSON)
                   /\ selected_node_ids' = <<>> /\ selected_edge_ids' = <<>>
                   /\ history_stack' = SubSeq(history_stack, 1, Len(history_stack) - 1)
                   /\ redo_stack' = Append(redo_stack, toJSON)
        /\ (IsCall("redo") /\ last'.ret = "true")
            => LET popped == redo_stack[Len(redo_stack)]
               IN  /\ toJSON' = popped
                   /\ nodes' = MapSeq(popped.nodes, NodeFromJSON)
                   /\ edges' = MapSeq(popped.edges, EdgeFromJSON)
                   /\ selected_node_ids' = <<>> /\ selected_edge_ids' = <<>>
                   /\ redo_stack' = SubSeq(redo_stack, 1, Len(redo_stack) - 1)
                   /\ history_stack' = Append(history_stack, toJSON)
      ]_vars

\* a paste that left its three copies selected was undone and redone: the
\* copies are back and nothing is selected
C30_Witness ==
    /\ Len(calls) = 3
    /\ calls[1].op = "paste" /\ calls[1].ret = "void"
    /\ calls[2].op = "undo" /\ calls[2].ret = "true"
    /\ calls[3].op = "redo" /\ calls[3].ret = "true"
    /\ Len(nodes) = Len(calls[1].pre.json.nodes) + 3
    /\ toJSON = calls[2].pre.json
    /\ selected_node_ids = <<>> /\ selected_edge_ids = <<>>
    /\ Len(history_stack) = 1 /\ redo_stack = <<>>

\* ================================================ claims: group membership
area(n) == n.computed_width * n.computed_height

\* the centre of the node at index i of ns lies within the absolute bounds of
\* the group group_id, bounds included (the centre is doubled, as in the model
\* of the loop, to stay in the integers)
centreInside(ns, i, group_id) ==
    LET g == ns[FindNode(ns, group_id)]
        g_abs == getAbsolutePosition(ns, group_id)
        n_abs == getAbsolutePosition(ns, ns[i].id)
        cx2 == 2 * n_abs.x + ns[i].computed_width
        cy2 == 2 * n_abs.y + ns[i].computed_height
    IN  /\ cx2 >= 2 * g_abs.x /\ cx2 <= 2 * (g_abs.x + g.computed_width)
        /\ cy2 >= 2 * g_abs.y /\ cy2 <= 2 * (g_abs.y + g.computed_height)

IsGroup(ns, group_id) ==
    FindNode(ns, group_id) # 0 /\ ns[FindNode(ns, group_id)].type = "group"

\* what updateGroupMembership(G) has established for the nodes ns it started
\* from and the nodes ms it ended with
membershipSynced(ns, ms, G) ==
    /\ Len(ms) = Len(ns)
    /\ \A i \in 1..Len(ns) :
          LET n == ns[i]
              pi == FindNode(ns, n.parent_id)
          IN  ns[i].type # "group" =>
                /\ ms[i].id = n.id
                /\ ~centreInside(ns, i, G) => ms[i].parent_id # G
                /\ (centreInside(ns, i, G)
                     /\ (~Truthy(n.parent_id)
                          \/ (pi # 0 /\ area(ns[pi]) > area(ns[FindNode(ns, G)]))))
                      => ms[i].parent_id = G
                /\ ((centreInside(ns, i, G) \/ n.parent_id # G)
                     /\ Truthy(n.parent_id) /\ pi # 0
                     /\ area(ns[pi]) <= area(ns[FindNode(ns, G)]))
                      => ms[i].parent_id = n.parent_id
    /\ \A id \in idsOf(ns) : getAbsolutePosition(ms, id) = getAbsolutePosition(ns, id)

\* C31 (as claimed): after updateGroupMembership(G) for a group G no non-group
\* node with its centre outside G is a child of G, every non-group node with
\* its centre inside G that had no parent or a parent of strictly larger area
\* is a child of G, a node inside G whose parent is no larger than G keeps its
\* parent, and every absolute position is as it was.
C31_GroupMembershipSynced ==
    [][ (IsCall("updateGroupMembership") /\ IsGroup(nodes, last'.args[1]))
          => /\ last'.ret = "void"
             /\ membershipSynced(nodes, nodes', last'.args[1])
      ]_vars

\* the same for calls on a graph without a cycle of parents and without two
\* nodes of one id
GroupMembershipSyncedAcyclic ==
    [][ (IsCall("updateGroupMembership") /\ IsGroup(nodes, last'.args[1])
         /\ acyclic(nodes) /\ Cardinality(idsOf(nodes)) = Len(nodes))
          => /\ last'.ret = "void"
             /\ membershipSynced(nodes, nodes', last'.args[1])
      ]_vars

\* ------------------------------------------------ findGroupAtPosition
\* findGroupAtPosition that returns the first group in array order
findGroupAtPosition_unsorted(ns, position, exclude_ids) ==
    LET candidates == {i \in 1..Len(ns) : ns[i].type = "group"
                                          /\ ns[i].id \notin Range(exclude_ids)}
        abs_pos(i) == getAbsolutePosition(ns, ns[i].id)
        groups == {i \in candidates :
                      /\ position.x >= abs_pos(i).x
                      /\ position.x <= abs_pos(i).x + ns[i].computed_width
                      /\ position.y >= abs_pos(i).y
                      /\ position.y <= abs_pos(i).y + ns[i].computed_height}
    IN  IF \E i \in candidates : ~abs_pos(i).ok THEN [ok |-> FALSE, id |-> Undefined]
        ELSE IF groups = {} THEN [ok |-> TRUE, id |-> Undefined]
        ELSE [ok |-> TRUE, id |-> ns[MinOf(groups)].id]

\* [ok, id]: the id of groups[0], Undefined when no group is left by the two
\* filters; the sort by area is stable, so groups[0] is the first node in array
\* order among those of the smallest area. ok = FALSE when getAbsolutePosition
\* threw in the second filter.
findGroupAtPosition(ns, position, exclude_ids) ==
    LET candidates == {i \in 1..Len(ns) : ns[i].type = "group"
                                          /\ ns[i].id \notin Range(exclude_ids)}
        abs_pos(i) == getAbsolutePosition(ns, ns[i].id)
        groups == {i \in candidates :
                      /\ position.x >= abs_pos(i).x
                      /\ position.x <= abs_pos(i).x + ns[i].computed_width
                      /\ position.y >= abs_pos(i).y
                      /\ position.y <= abs_pos(i).y + ns[i].computed_height}
        smallest == {i \in groups : \A j \in groups : area(ns[i]) <= area(ns[j])}
    IN  IF \E i \in candidates : ~abs_pos(i).ok THEN [ok |-> FALSE, id |-> Undefined]
        ELSE IF groups = {} THEN [ok |-> TRUE, id |-> Undefined]
        ELSE [ok |-> TRUE, id |-> ns[MinOf(smallest)].id]

findGroupAtPositionCall(position, exclude_ids) ==
    /\ budget > 0
    /\ LET r == findGroupAtPosition(nodes, position, exclude_ids)
       IN  /\ UNCHANGED store
           /\ Log("findGroupAtPosition", <<position, exclude_ids>>,
                  IF r.ok THEN r.id ELSE "RangeError", <<>>)

MaxGroupSteps == 3

InitGroups == Constructed(InitialNodes, <<>>, ConfigOf(None), MaxGroupSteps)

\* Group "1" is made larger or smaller than the nested group "3", node "2" is
\* moved inside and outside of them and taken out of "1", group "1" is put
\* below node "2", and the groups are asked for at points inside both groups,
\* inside "1" only, on a border and outside.
NextGroups ==
    \/ \E c \in {<<"2", Undefined>>, <<"1", "2">>, <<"2", "3">>} : setNodeParent(c[1], c[2])
    \/ \E group_id \in {"1", "3", "2"} : updateGroupMembership(group_id)
    \/ \E position \in {Pos(400, 400), Pos(150, 150)} : updateNodePosition("2", position)
    \/ \E width \in {300, 50, 100} : resizeNode("1", width, width)
    \/ \E position \in {Pos(50, 50), Pos(150, 150), Pos(120, 120), Pos(500, 500)},
          exclude_ids \in {<<>>, <<"3">>, <<"2", "1">>} :
          findGroupAtPositionCall(position, exclude_ids)
    \/ undo

SpecGroups == InitGroups /\ [][NextGroups]_vars

\* the indices of the group-type nodes of ns outside exclude_ids whose absolute
\* rectangle, borders included, holds the point
groupsAt(ns, point, exclude_ids) ==
    {i \in 1..Len(ns) :
        /\ ns[i].type = "group"
        /\ ns[i].id \notin Range(exclude_ids)
        /\ absolute(ns, ns[i].id).x <= point.x
        /\ point.x <= absolute(ns, ns[i].id).x + ns[i].computed_width
        /\ absolute(ns, ns[i].id).y <= point.y
        /\ point.y <= absolute(ns, ns[i].id).y + ns[i].computed_height}

\* C32: findGroupAtPosition(point, exclude_ids) returns none exactly when no
\* group-type node outside exclude_ids has the point within its absolute
\* rectangle (borders included), and otherwise returns such a group of the
\* smallest area among them.
C32_SmallestGroupAtPoint ==
    (calls # <<>> /\ last.op = "findGroupAtPosition")
      => LET at == groupsAt(nodes, last.args[1], last.args[2])
         IN  /\ (last.ret = Undefined) <=> (at = {})
             /\ last.ret # Undefined
                  => \E i \in at : /\ nodes[i].id = last.ret
                                   /\ \A j \in at : area(nodes[i]) <= area(nodes[j])

\* the 100x100 group "3" inside the 300x300 group "1", both over (50, 50)
C32_Witness ==
    /\ calls # <<>> /\ last.op = "findGroupAtPosition"
    /\ last.args = <<Pos(50, 50), <<>>>>
    /\ last.ret = "3"
    /\ Len(nodes) >= 2
    /\ nodes[1].id = "1" /\ area(nodes[1]) = 300 * 300
    /\ nodes[2].id = "3" /\ area(nodes[2]) = 100 * 100 /\ nodes[2].parent_id = "1"

\* the other outcomes: none outside every group, the larger group where the
\* smaller one is excluded or does not reach, none when both are excluded
FindGroupOutcomes_Witness ==
    /\ Len(calls) = 3
    /\ \A k \in 1..3 : calls[k].op = "findGroupAtPosition"
    /\ calls[1].args = <<Pos(500, 500), <<>>>> /\ calls[1].ret = Undefined
    /\ calls[2].args = <<Pos(50, 50), <<"3">>>> /\ calls[2].ret = "1"
    /\ calls[3].args = <<Pos(120, 120), <<>>>> /\ calls[3].ret = "3"

\* ================================================ claims: draft connection
MaxDraftSteps == 4

InitDraft == Rendered(ConfigOf(None), FALSE, MaxDraftSteps)

\* Drags from the output of "2" and from the input of "a", dropped on handles
\* that accept the connection, duplicate e1, are on the source node or do not
\* exist, updated and cancelled with and without a draft.
NextDraft ==
    \/ \E c \in {<<"2", "out">>, <<"a", "in">>} : startConnection(c[1], c[2], Pos(0, 0))
    \/ \E target_position \in {Pos(10, 10), Pos(20, 20)} : updateConnection(target_position)
    \/ cancelConnection
    \/ \E c \in {<<"a", "in">>, <<"a", "in2">>, <<"2", "out">>, <<"zz", "in">>} :
          finishConnection(c[1], c[2])
    \/ removeEdge("e1")
    \/ undo

SpecDraft == InitDraft /\ [][NextDraft]_vars

\* C33: the store holds at most one draft connection. startConnection replaces
\* any draft by one from its arguments; updateConnection and cancelConnection
\* change nothing when there is no draft; finishConnection without a draft
\* returns false and changes nothing, and with a draft it ends without a draft
\* and returns true exactly when it appended an edge from the source of the
\* draft to the given target.
C33_OneDraftConnection ==
    [][ /\ Len(draft_connection') <= 1
        /\ IsCall("startConnection")
            => /\ draft_connection' # None
               /\ draft_connection'[1].source_node_id = last'.args[1]
               /\ draft_connection'[1].source_handle_id = last'.args[2]
               /\ UNCHANGED store
        /\ (IsCall("updateConnection") /\ draft_connection = None)
            => UNCHANGED <<store, view>>
        /\ (IsCall("updateConnection") /\ draft_connection # None)
            => /\ draft_connection' # None
               /\ draft_connection'[1].source_node_id = draft_connection[1].source_node_id
               /\ draft_connection'[1].source_handle_id = draft_connection[1].source_handle_id
               /\ UNCHANGED store
        /\ IsCall("cancelConnection")
            => /\ draft_connection' = None
               /\ UNCHANGED <<store, viewport, selection_rect, canvas_width, canvas_height>>
        /\ (IsCall("finishConnection") /\ draft_connection = None)
            => /\ last'.ret = "false"
               /\ UNCHANGED <<store, view>>
        /\ (IsCall("finishConnection") /\ draft_connection # None)
            => LET added ==
                     /\ Len(edges') = Len(edges) + 1
                     /\ SubSeq(edges', 1, Len(edges)) = edges
                     /\ edges'[Len(edges')].source = draft_connection[1].source_node_id
                     /\ edges'[Len(edges')].source_handle = draft_connection[1].source_handle_id
                     /\ edges'[Len(edges')].target = last'.args[1]
                     /\ edges'[Len(edges')].target_handle = last'.args[2]
               IN  /\ draft_connection' = None
                   /\ last'.ret \in {"true", "false"}
                   /\ (last'.ret = "true") <=> added
                   /\ last'.ret = "false" => edges' = edges
      ]_vars

\* a drag from 2:out was replaced by one from a:in, which was refused on 2:out
\* and left no draft
C33_Witness ==
    /\ Len(calls) = 3
    /\ calls[1].op = "startConnection" /\ calls[1].args = <<"2", "out">>
    /\ calls[2].op = "startConnection" /\ calls[2].args = <<"a", "in">>
    /\ calls[3].op = "finishConnection" /\ calls[3].args = <<"2", "out">>
    /\ calls[3].ret = "false"
    /\ draft_connection = None
    /\ Len(edges) = 1

\* a draft from 2:out, updated, was finished on a:in2 and the edge was added
DraftFinished_Witness ==
    /\ Len(calls) = 3
    /\ calls[1].op = "startConnection" /\ calls[1].args = <<"2", "out">>
    /\ calls[2].op = "updateConnection"
    /\ calls[3].op = "finishConnection" /\ calls[3].args = <<"a", "in2">>
    /\ calls[3].ret = "true"
    /\ draft_connection = None
    /\ Len(edges) = 2 /\ edges[2].source = "2" /\ edges[2].target = "a"

\* ============================================= claims: waypoint lists
\* C34: under addEdgeWaypoint, updateEdgeWaypoint, removeEdgeWaypoint,
\* clearEdgeWaypoints, undo and redo, from edges whose waypoints are absent or
\* not empty, no edge has an empty waypoint list; a removeEdgeWaypoint with an
\* index of the list leaves the waypoints absent when it removed the only one
\* and otherwise leaves the other waypoints in their order.
C34_NoEmptyWaypointList ==
    [][ /\ \A i \in 1..Len(edges') : edges'[i].waypoints # Some(<<>>)
        /\ (IsCall("removeEdgeWaypoint") /\ last'.ret = "void")
            => LET i == FindEdge(edges, last'.args[1])
                   old == edges[i].waypoints[1]
                   k == last'.args[2]
               IN  /\ Len(edges') = Len(edges)
                   /\ edges'[i].waypoints =
                        IF Len(old) = 1 THEN None
                        ELSE Some([j \in 1..(Len(old) - 1) |->
                                      IF j <= k THEN old[j] ELSE old[j + 1]])
      ]_vars

\* the only waypoint of e1 was removed and the list is absent
C34_Witness ==
    /\ calls # <<>> /\ last.op = "removeEdgeWaypoint" /\ last.ret = "void"
    /\ last.pre.json.edges[1].waypoints = Some(<<Pos(200, 100)>>)
    /\ Len(edges) = 1 /\ edges[1].waypoints = None

\* the middle one of three waypoints was removed
MiddleWaypointRemoved_Witness ==
    /\ calls # <<>> /\ last.op = "removeEdgeWaypoint" /\ last.args = <<"e1", 1>>
    /\ last.pre.json.edges[1].waypoints # None
    /\ Len(last.pre.json.edges[1].waypoints[1]) = 3
    /\ Len(edges) = 1
    /\ edges[1].waypoints = Some(<<Pos(20, 20), Pos(200, 100)>>)

\* ============================================ claims: snapshot before change
\* the call just recorded pushed the serialized graph it started from
pushedBefore ==
    /\ history_stack' # <<>>
    /\ history_stack' # history_stack
    /\ history_stack'[Len(history_stack')] = toJSON

\* C35 (as claimed): every call other than undo, redo and fromJSON that changes
\* the serialized graph pushes the serialized graph from before the change on
\* the undo stack, updateNodePosition and updateGroupMembership included.
C35_SnapshotBeforeEveryChange ==
    [][ (budget' # budget /\ last'.op \notin {"undo", "redo", "fromJSON"}
         /\ toJSON' # toJSON)
          => pushedBefore
      ]_vars

\* The same for every call but updateNodePosition and updateGroupMembership.
SnapshotBeforeOtherChanges ==
    [][ (budget' # budget
         /\ last'.op \notin {"undo", "redo", "fromJSON",
                             "updateNodePosition", "updateGroupMembership"}
         /\ toJSON' # toJSON)
          => pushedBefore
      ]_vars

\* ================================================= claims: edge endpoints
endpointsPresent(ns, es) ==
    \A i \in 1..Len(es) : FindNode(ns, es[i].source) # 0 /\ FindNode(ns, es[i].target) # 0

\* C36 (as claimed): under addNode, removeNode, deleteSelected, registerHandle,
\* unregisterHandle, addEdge, finishConnection, paste, undo and redo, with
\* handles unregistered some time after their node was removed, every edge of
\* the store has its source node and its target node in the store.
C36_EdgeEndpointsPresent == endpointsPresent(nodes, edges)

\* Every step other than an accepted addEdge or finishConnection keeps the
\* endpoints present if they were.
OnlyConnectingMakesDanglingEdges ==
    [][ (endpointsPresent(nodes, edges) /\ budget' # budget
         /\ ~(last'.op \in {"addEdge", "finishConnection"} /\ last'.ret = "true"))
          => endpointsPresent(nodes', edges')
      ]_vars

\* ================================================== claims: parent present
parentsPresent(ns) ==
    \A i \in 1..Len(ns) : Truthy(ns[i].parent_id) => FindNode(ns, ns[i].parent_id) # 0

\* the same for the graph and for every snapshot an undo or redo can bring back
parentsPresentAll ==
    /\ parentsPresent(nodes)
    /\ \A k \in 1..Len(history_stack) : parentsPresent(history_stack[k].nodes)
    /\ \A k \in 1..Len(redo_stack) : parentsPresent(redo_stack[k].nodes)

\* an addNode whose node names a parent that is not in the store
addedBelowMissingParent ==
    /\ last'.op = "addNode"
    /\ ~parentsPresent(<<nodes'[Len(nodes')]>> \o nodes)

\* C37 (as claimed): under addNode with an existing parent or none,
\* setNodeParent, updateGroupMembership, removeNode, deleteSelected, paste,
\* undo and redo, the parent_id of every node names a node of the store: no
\* such call creates a parent_id that names a missing node.
C37_ParentPresent ==
    [][ (parentsPresentAll /\ budget' # budget /\ ~addedBelowMissingParent)
          => parentsPresentAll'
      ]_vars

\* The same without the setNodeParent calls that name a parent that is not in
\* the store.
ParentPresentUnlessMissingParentGiven ==
    [][ (parentsPresentAll /\ budget' # budget /\ ~addedBelowMissingParent
         /\ ~(last'.op = "setNodeParent" /\ Truthy(last'.args[2])
              /\ FindNode(nodes, last'.args[2]) = 0))
          => parentsPresentAll'
      ]_vars

\* ============================================ claims: removal by cascade
MaxCascadeSteps == 3

InitCascade == \E used \in BOOLEAN : Rendered(ConfigOf(None), used, MaxCascadeSteps)

\* Groups, their contents and the edge are selected and removed, by name and
\* as descendants or attached edges of what is named.
NextCascade ==
    \/ \E node_id \in {"1", "3", "2"} : selectNode(node_id, TRUE)
    \/ \E additive \in BOOLEAN : selectEdge("e1", additive)
    \/ \E node_id \in {"1", "2", "a"} : removeNode(node_id)
    \/ removeEdge("e1")
    \/ deleteSelected
    \/ undo
    \/ redo

SpecCascade == InitCascade /\ [][NextCascade]_vars

edgeIdsOf(es) == {es[i].id : i \in 1..Len(es)}

selectionExists(ns, es, node_sel, edge_sel) ==
    /\ Range(node_sel) \subseteq idsOf(ns)
    /\ Range(edge_sel) \subseteq edgeIdsOf(es)

\* C38 (as claimed): after removeNode, removeEdge or deleteSelected on a store
\* whose selection held only ids of the store, selected_node_ids holds only
\* ids of nodes of the store and selected_edge_ids only ids of edges of the
\* store, descendants and edges removed by cascade included.
C38_SelectionOnlyExisting ==
    [][ (budget' # budget /\ last'.op \in {"removeNode", "removeEdge", "deleteSelected"}
         /\ selectionExists(nodes, edges, selected_node_ids, selected_edge_ids))
          => selectionExists(nodes', edges', selected_node_ids', selected_edge_ids')
      ]_vars

\* The same for the selected nodes after all three operations, and for the
\* selected edges after removeEdge and deleteSelected.
SelectionExistsButCascadedEdges ==
    [][ (budget' # budget /\ last'.op \in {"removeNode", "removeEdge", "deleteSelected"}
         /\ selectionExists(nodes, edges, selected_node_ids, selected_edge_ids))
          => /\ Range(selected_node_ids') \subseteq idsOf(nodes')
             /\ last'.op # "removeNode"
                  => Range(selected_edge_ids') \subseteq edgeIdsOf(edges')
      ]_vars

\* ================================================ claims: on_delete lists
\* The record of a deleteSelected that ran to its end holds the two lists it
\* handed to on_delete.
\* C39 (as claimed): the node ids and the edge ids that deleteSelected hands to
\* on_delete are exactly the ids of the nodes and of the edges that the call
\* removed from the store, so that a host that filters its own copy of the
\* graph by the two lists ends with the graph of the store.
C39_OnDeleteListsWhatWasRemoved ==
    [][ (IsCall("deleteSelected") /\ last'.ret = "void")
          => /\ Range(last'.args[1]) = idsOf(nodes) \ idsOf(nodes')
             /\ Range(last'.args[2]) = edgeIdsOf(edges) \ edgeIdsOf(edges')
             /\ SelectSeq(toJSON.nodes, LAMBDA n : n.id \notin Range(last'.args[1]))
                  = toJSON'.nodes
             /\ SelectSeq(toJSON.edges, LAMBDA e : e.id \notin Range(last'.args[2]))
                  = toJSON'.edges
      ]_vars

\* What does hold: the two lists are the selection the call started from, and
\* no listed id is in the store afterwards.
OnDeleteListsTheSelection ==
    [][ (IsCall("deleteSelected") /\ last'.ret = "void")
          => /\ last'.args = <<selected_node_ids, selected_edge_ids>>
             /\ Range(last'.args[1]) \cap idsOf(nodes') = {}
             /\ Range(last'.args[2]) \cap edgeIdsOf(edges') = {}
             /\ last'.cbs = <<"on_delete">>
      ]_vars

\* ============================================== the Node component: dragging
\* The mouse handlers of components/Node.svelte, for a left button press that
\* is not on a handle, on graphs without a cycle of parents. Pointer positions
\* are client coordinates.
updateNodePositionOf(ns, node_id, position) ==
    IF FindNode(ns, node_id) = 0 THEN ns
    ELSE [ns EXCEPT ![FindNode(ns, node_id)].position = position]

\* e.clientX - absolutePosition.x * zoom - viewport.x, and the same for y
dragOffsetOf(ns, vp, node_id, client) ==
    Pos(client.x - times(getAbsolutePosition(ns, node_id).x, vp.zoom) - vp.x,
        client.y - times(getAbsolutePosition(ns, node_id).y, vp.zoom) - vp.y)

\* the offsets of the selected nodes other than node_id, in the order of the
\* selection
RECURSIVE otherOffsets(_, _, _, _, _)
otherOffsets(ns, vp, sel, node_id, client) ==
    IF sel = <<>> THEN <<>>
    ELSE (IF Head(sel) = node_id THEN <<>>
          ELSE <<[id |-> Head(sel), offset |-> dragOffsetOf(ns, vp, Head(sel), client)]>>)
         \o otherOffsets(ns, vp, Tail(sel), node_id, client)

\* this.nodes after one node was moved with the pointer in handleMouseMove
dragTo(ns, vp, node_id, offset, client) ==
    LET i == FindNode(ns, node_id)
        new_abs == Pos(over(client.x - offset.x - vp.x, vp.zoom),
                       over(client.y - offset.y - vp.y, vp.zoom))
        parent_abs == getAbsolutePosition(ns, ns[i].parent_id)
    IN  IF i = 0 THEN ns
        ELSE IF Truthy(ns[i].parent_id)
        THEN updateNodePositionOf(ns, node_id,
                                  Pos(new_abs.x - parent_abs.x, new_abs.y - parent_abs.y))
        ELSE updateNodePositionOf(ns, node_id, new_abs)

RECURSIVE dragOthersTo(_, _, _, _)
dragOthersTo(ns, vp, others, client) ==
    IF others = <<>> THEN ns
    ELSE dragOthersTo(dragTo(ns, vp, Head(others).id, Head(others).offset, client),
                      vp, Tail(others), client)

\* flow.setNodeParent(node_id, parent_id) on st = [nodes, history_stack,
\* redo_stack, ok]
setNodeParentOn(st, es, cfg, node_id, parent_id) ==
    LET p == pushSnapshot(st.history_stack, st.redo_stack, is_restoring,
                          toJSONOf(st.nodes, es), cfg)
        r == setNodeParentInternal(st.nodes, node_id, parent_id)
    IN  [nodes |-> r.nodes, history_stack |-> p.history_stack,
         redo_stack |-> p.redo_stack, ok |-> r.ok]

\* the second half of processGroupMembershipAfterDrag: left is the store after
\* the node may have been taken out of the group it was dropped outside of
dropIntoGroup(left, es, cfg, node_id, dropPos, targetGroup) ==
    IF ~left.ok THEN left
    ELSE IF Truthy(left.nodes[FindNode(left.nodes, node_id)].parent_id) THEN left
    ELSE IF ~targetGroup.ok THEN [left EXCEPT !.ok = FALSE]
    ELSE IF targetGroup.id = Undefined THEN left
    ELSE setNodeParentOn(left, es, cfg, node_id, targetGroup.id)

dropOutOfGroup(left, es, cfg, node_id, dropPos, all_dragged_ids) ==
    dropIntoGroup(left, es, cfg, node_id, dropPos,
                  findGroupAtPosition(left.nodes, Pos(dropPos.x, dropPos.y), all_dragged_ids))

processGroupMembershipAfterDrag(st, es, cfg, node_id, all_dragged_ids) ==
    LET i == FindNode(st.nodes, node_id)
        moved_node == st.nodes[i]
        membership == updateGroupMembershipOf(st.nodes, node_id)
        dropPos == getAbsolutePosition(st.nodes, node_id)
        pi == FindNode(st.nodes, moved_node.parent_id)
        parentAbsPos == getAbsolutePosition(st.nodes, moved_node.parent_id)
        isInsideParent ==
            /\ dropPos.x >= parentAbsPos.x
            /\ dropPos.x <= parentAbsPos.x + st.nodes[pi].computed_width
            /\ dropPos.y >= parentAbsPos.y
            /\ dropPos.y <= parentAbsPos.y + st.nodes[pi].computed_height
    IN  IF i = 0 THEN st
        ELSE IF moved_node.type = "group"
        THEN [st EXCEPT !.nodes = membership.nodes, !.ok = membership.ok]
        ELSE IF Truthy(moved_node.parent_id) /\ pi # 0 /\ isInsideParent THEN st
        ELSE dropOutOfGroup(IF Truthy(moved_node.parent_id) /\ pi # 0
                            THEN setNodeParentOn(st, es, cfg, node_id, Undefined)
                            ELSE st,
                            es, cfg, node_id, dropPos, all_dragged_ids)

RECURSIVE processEach(_, _, _, _, _)
processEach(st, es, cfg, ids, all_dragged_ids) ==
    IF ids = <<>> \/ ~st.ok THEN st
    ELSE processEach(processGroupMembershipAfterDrag(st, es, cfg, Head(ids), all_dragged_ids),
                     es, cfg, Tail(ids), all_dragged_ids)

handleMouseDown(node_id, client, additive) ==
    /\ budget > 0
    /\ dragging = None
    /\ FindNode(nodes, node_id) # 0
    /\ LET isAlreadySelected == node_id \in Range(selected_node_ids)
           sel == IF isAlreadySelected THEN selected_node_ids
                  ELSE IF additive THEN SetAdd(selected_node_ids, node_id) ELSE <<node_id>>
       IN  /\ selected_node_ids' = sel
           /\ selected_edge_ids' = IF isAlreadySelected \/ additive THEN selected_edge_ids
                                   ELSE <<>>
           /\ IF config.locked
              THEN /\ dragging' = None
                   /\ UNCHANGED <<history_stack, redo_stack>>
              ELSE /\ dragging' = Some([node_id |-> node_id, hasMoved |-> FALSE,
                                        dragOffset |-> dragOffsetOf(nodes, viewport, node_id, client),
                                        dragStartPos |-> client,
                                        otherSelectedOffsets |->
                                           otherOffsets(nodes, viewport, sel, node_id, client)])
                   /\ PushSnapshotNow
           /\ UNCHANGED <<nodes, edges, handle_registry, clipboard, next_node_id,
                          is_restoring, config>>
           /\ UNCHANGED view
           /\ Noted("handleMouseDown", <<node_id, client>>,
                    IF config.locked THEN "ignored" ELSE "void",
                    (IF isAlreadySelected THEN <<>> ELSE <<"on_node_click">>)
                      \o (IF config.locked THEN <<>> ELSE <<"on_node_drag_start">>))

handleMouseMove(client) ==
    /\ budget > 0
    /\ dragging # None
    /\ LET d == dragging[1]
           dx == client.x - d.dragStartPos.x
           dy == client.y - d.dragStartPos.y
       IN  /\ IF config.locked
              THEN UNCHANGED <<nodes, dragging>>
              ELSE /\ dragging' = Some([d EXCEPT !.hasMoved = @ \/ (dx * dx + dy * dy > 5 * 5)])
                   /\ nodes' = dragOthersTo(dragTo(nodes, viewport, d.node_id, d.dragOffset, client),
                                            viewport, d.otherSelectedOffsets, client)
           /\ UNCHANGED <<edges, handle_registry, selected_node_ids, selected_edge_ids,
                          clipboard, next_node_id, history_stack, redo_stack,
                          is_restoring, config>>
           /\ UNCHANGED view
           /\ Noted("handleMouseMove", <<client>>,
                    IF config.locked THEN "ignored" ELSE "void", <<>>)

\* the store after the membership of every dragged node was processed
dropped(all_dragged_ids) ==
    processEach([nodes |-> nodes, history_stack |-> history_stack,
                 redo_stack |-> redo_stack, ok |-> TRUE],
                edges, config, all_dragged_ids, all_dragged_ids)

handleMouseUp ==
    /\ budget > 0
    /\ dragging # None
    /\ \E d \in {dragging[1]} :
       \E st \in {dropped(<<d.node_id>> \o [k \in 1..Len(d.otherSelectedOffsets) |->
                                              d.otherSelectedOffsets[k].id])} :
           /\ dragging' = None
           /\ IF d.hasMoved
              THEN /\ nodes' = st.nodes
                   /\ history_stack' = st.history_stack
                   /\ redo_stack' = st.redo_stack
              ELSE UNCHANGED <<nodes, history_stack, redo_stack>>
           /\ UNCHANGED <<edges, handle_registry, selected_node_ids, selected_edge_ids,
                          clipboard, next_node_id, is_restoring, config>>
           /\ UNCHANGED view
           /\ Noted("handleMouseUp", <<d.hasMoved>>,
                    IF d.hasMoved THEN Result(st.ok) ELSE "void",
                    IF d.hasMoved /\ st.ok THEN <<"on_node_drag_end">> ELSE <<>>)

\* ==================================================== claims: drag gestures
MaxDragSteps == 4

InitDrag == Rendered(ConfigOf(None), FALSE, MaxDragSteps)

\* Presses on node "2" (inside group 1), on the free node "a" and on the
\* nested group "3", each at a point 10 right of and 10 below the corner the
\* node has in the rendered graph; moves of less than the threshold, within
\* group 1 and group 3, and far outside every group; releases; with a second
\* node selected, and while the store is locked.
NextDrag ==
    \/ \E c \in {<<"2", Pos(50, 50)>>, <<"a", Pos(410, 10)>>, <<"3", Pos(30, 30)>>},
          additive \in BOOLEAN : handleMouseDown(c[1], c[2], additive)
    \/ \E client \in {Pos(52, 52), Pos(60, 60), Pos(410, 410)} : handleMouseMove(client)
    \/ handleMouseUp
    \/ selectNode("2", TRUE)
    \/ setLocked(TRUE)
    \/ dragging = None /\ undo

SpecDrag == InitDrag /\ [][NextDrag]_vars

\* the release that ends a gesture of a press, one move and the release, whose
\* move went past the threshold
DragCompleted ==
    /\ IsCall("handleMouseUp")
    /\ Len(calls') = 3
    /\ calls'[1].op = "handleMouseDown" /\ calls'[1].ret = "void"
    /\ calls'[2].op = "handleMouseMove" /\ calls'[2].ret = "void"
    /\ dragging[1].hasMoved

\* the release that directly follows the press
ClickCompleted ==
    /\ IsCall("handleMouseUp")
    /\ Len(calls') >= 2
    /\ calls'[Len(calls') - 1].op = "handleMouseDown"

\* the press of the gesture that the release just ended
pressed == calls'[Len(calls') - IF DragCompleted THEN 2 ELSE 1]

\* C40 (as claimed): a drag of a press, a move past the threshold and the
\* release adds exactly one entry to the undo stack, and one undo() after it
\* gives the graph as it was before the press, also when the drop moved the
\* node into or out of a group; a press and release without a move leaves the
\* undo stack and the redo stack as they were before the press.
C40_DragIsOneUndoEntry ==
    [][ /\ DragCompleted
            => /\ Len(history_stack') = Len(pressed.pre.history_stack) + 1
               /\ undoOf(history_stack', redo_stack', toJSON').flow = pressed.pre.json
        /\ ClickCompleted
            => /\ history_stack' = pressed.pre.history_stack
               /\ redo_stack' = pressed.pre.redo_stack
      ]_vars

\* the parent of every node is as it was before the step
parentsKept ==
    /\ Len(nodes') = Len(nodes)
    /\ \A i \in 1..Len(nodes) : nodes'[i].parent_id = nodes[i].parent_id

\* What does hold: a completed drag whose release changes no parent, or only
\* through updateGroupMembership for a dragged group, adds one entry, and one
\* undo() gives the graph from before the press; a press on a locked store
\* leaves both stacks alone.
DragWithoutReparentingIsOneEntry ==
    [][ /\ (DragCompleted
            /\ \/ parentsKept
               \/ /\ nodes[FindNode(nodes, dragging[1].node_id)].type = "group"
                  /\ dragging[1].otherSelectedOffsets = <<>>)
            => /\ Len(history_stack') = Len(pressed.pre.history_stack) + 1
               /\ undoOf(history_stack', redo_stack', toJSON').flow = pressed.pre.json
        /\ (IsCall("handleMouseDown") /\ last'.ret = "ignored")
            => UNCHANGED <<nodes, edges, history_stack, redo_stack, dragging>>
      ]_vars

\* a press and release without a move: one entry more on the undo stack
ClickPushed_Witness ==
    /\ Len(calls) = 2
    /\ calls[1].op = "handleMouseDown" /\ calls[2].op = "handleMouseUp"
    /\ Len(history_stack) = 1 /\ toJSON = history_stack[1]

\* node a was dropped into group 3: two entries on the undo stack
DropIntoGroup_Witness ==
    /\ Len(calls) = 3
    /\ calls[1].op = "handleMouseDown" /\ calls[1].args[1] = "a"
    /\ calls[3].op = "handleMouseUp"
    /\ FindNode(nodes, "a") # 0 /\ nodes[FindNode(nodes, "a")].parent_id = "3"
    /\ Len(history_stack) = 2

\* node 2 was dropped outside its group: no parent, two entries
DropOutOfGroup_Witness ==
    /\ Len(calls) = 3
    /\ calls[1].op = "handleMouseDown" /\ calls[1].args[1] = "2"
    /\ calls[3].op = "handleMouseUp"
    /\ FindNode(nodes, "2") # 0 /\ nodes[FindNode(nodes, "2")].parent_id = Undefined
    /\ absolute(nodes, "2") = Pos(400, 400)
    /\ Len(history_stack) = 2

\* node 2 was dragged within its group and one undo() brought it back
DragUndone_Witness ==
    /\ Len(calls) = 3
    /\ calls[1].op = "handleMouseMove" /\ calls[2].op = "handleMouseUp"
    /\ calls[3].op = "undo" /\ calls[3].ret = "true"
    /\ history_stack = <<>>
    /\ toJSON = toJSONOf(MapSeq(InitialNodes, NodeStateOf), InitialEdges)
    /\ calls[3].pre.json # toJSON
====
